---- MODULE Spec2Model ----
(***************************************************************************)
(* Transport layer of the UpNote MCP tooling.                              *)
(*                                                                         *)
(*   - upnote_mcp_server.py : the stdio server (read_message, main and the *)
(*     two writers), modelled as a process that reads a byte pipe `stdin`  *)
(*     fed by a peer and appends framed replies to `written`.              *)
(*   - upnote_mcp_debugger.py : the decode rules try_parse_ndjson and      *)
(*     try_parse_lsp, the detector sniff_and_summarize, and the byte pump. *)
(*                                                                         *)
(* A byte is a one-character string and a byte string is a sequence of     *)
(* bytes.  Indices and slices follow Python: Find returns a 0-based index  *)
(* or -1, and Slice(s, lo, hi) is s[lo:hi].                                *)
(*                                                                         *)
(* JSON values are identified by their compact text: the id 0 is "0", the  *)
(* empty string is "\"\"", JSON null is "null".  Python's None is PyNone.  *)
(* A byte above 0x7F is written as its hex number: the string made of the  *)
(* character U+00E9, "\u00e9" in JSON, is the bytes "0xC3", "0xA9" between  *)
(* quotes, as json.dumps with ensure_ascii=False and UTF-8 produce it.     *)
(* The output stream is taken to accept every write.                       *)
(***************************************************************************)
EXTENDS Integers, Sequences, FiniteSets, TLC

VARIABLES
    stdin,            \* server: bytes the peer has written and the server has not read
    eof,              \* server: the peer has closed its end of the pipe
    pending,          \* server: frames sent since main last found the pipe empty at the top of its loop
    TRANSPORT_MODE,   \* server: the global of the same name (PyNone, "ndjson", "lsp")
    pc,               \* server: position in main / read_message
    req,              \* server: main's local `req`
    headers,          \* server: _read_lsp_from's local dict `headers` (empty outside it)
    written,          \* server: the write_message calls of the current iteration of main
    rule,             \* server: the decode rule read_message selected for req (history)
    lineClass,        \* server: what the first line of req's frame looked like (history)
    firstClass,       \* server: what the first line readline returned looked like (history)
    sent,             \* server: what a writer at the other end put on the pipe first (history)
    src,              \* pump: bytes the source has still to deliver
    srcAll,           \* pump: every byte of the source stream (history)
    dst,              \* pump: bytes written to the destination
    tap,              \* pump: bytes written to the tee file
    buf,              \* pump: the local bytearray `buf`
    detected,         \* pump: kinds of the messages sniff_and_summarize has logged, in order
    ppc,              \* pump: position in pump
    fault,            \* pump: the call of the loop that raised (PyNone while none has)
    fbuf,             \* decode rules: the buffer handed to the rule
    fres,             \* decode rules: what the rules and the detector returned for fbuf
    fpc,              \* decode rules: position of the harness
    logFile,          \* logger: the bytes of LOG_FILE, as the appends made to it
    errOut,           \* logger: the bytes written to sys.stderr
    lpc,              \* logger: position of each thread inside Logger.log
    lbuf,             \* logger: the buffer of the file object each thread has open
    ldone,            \* logger: how many log calls each thread has completed
    tin,              \* tripwire: bytes of the client's stream not yet read
    tbuf,             \* tripwire: the local bytearray `buf`
    tlog,             \* tripwire: the records logged, in order
    tpc,              \* tripwire: position in run_tripwire
    tconsumed,        \* tripwire: the local `consumed`
    tout,             \* tripwire: bytes written to the wrapper's stdout
    tchild,           \* tripwire: whether a child process was spawned
    wreq,             \* failing output: the request main is handling
    wmode,            \* failing output: TRANSPORT_MODE
    wfails,           \* failing output: the write_message calls that raise, by their number
    wout,             \* failing output: the writes stdout has accepted
    wtries,           \* failing output: write_message calls made for the request
    wpc,              \* failing output: position in main
    arg,              \* library call: the arguments
    ret,              \* library call: the value returned
    called,           \* library call: the function that has returned (PyNone before)
    pipe,             \* proxy: the bytes in sys.stdin, proc.stdin, proc.stdout and sys.stdout
    clientOpen,       \* proxy: the client holds its end of the wrapper's stdin open
    proc,             \* proxy: the child process ("running", "exited")
    signals,          \* proxy: the signals run_proxy has sent to the child, in order
    rpc,              \* proxy: position of the main thread in run_proxy and main
    threads           \* proxy: the state of the daemon threads t_c2s and t_s2c

vars == <<stdin, eof, pending, TRANSPORT_MODE, pc, req, headers, written, rule,
          lineClass, firstClass, sent, src, srcAll, dst, tap, buf, detected, ppc, fault,
          fbuf, fres, fpc, logFile, errOut, lpc, lbuf, ldone, tin, tbuf, tlog, tpc,
          tconsumed, tout, tchild, wreq, wmode, wfails, wout, wtries, wpc,
          arg, ret, called, pipe, clientOpen, proc, signals, rpc, threads>>

serverVars == <<stdin, eof, pending, TRANSPORT_MODE, pc, req, headers, written,
                rule, lineClass, firstClass, sent>>
pumpVars == <<src, srcAll, dst, tap, buf, detected, ppc, fault>>
parseVars == <<fbuf, fres, fpc>>
logVars == <<logFile, errOut, lpc, lbuf, ldone>>
tripVars == <<tin, tbuf, tlog, tpc, tconsumed, tout, tchild>>

writeVars == <<wreq, wmode, wfails, wout, wtries, wpc>>
callVars == <<arg, ret, called>>
proxyVars == <<pipe, clientOpen, proc, signals, rpc, threads>>

\* What a step of one program leaves alone: the state of the others.
notServerVars == <<pumpVars, parseVars, logVars, tripVars, writeVars, callVars, proxyVars>>
notPumpVars == <<serverVars, parseVars, logVars, tripVars, writeVars, callVars, proxyVars>>
notParseVars == <<serverVars, pumpVars, logVars, tripVars, writeVars, callVars, proxyVars>>
notLogVars == <<serverVars, pumpVars, parseVars, tripVars, writeVars, callVars, proxyVars>>
notTripVars == <<serverVars, pumpVars, parseVars, logVars, writeVars, callVars, proxyVars>>
notWriteVars == <<serverVars, pumpVars, parseVars, logVars, tripVars, callVars, proxyVars>>
notCallVars == <<serverVars, pumpVars, parseVars, logVars, tripVars, writeVars, proxyVars>>
notProxyVars == <<serverVars, pumpVars, parseVars, logVars, tripVars, writeVars, callVars>>

(***************************************************************************)
(* Bounds of the model.                                                    *)
(***************************************************************************)
\* Frames the peer may send ahead of the server's return to the top of its loop.
MaxPending == 2
\* Chunks a source stream of the pump is made of.
MaxChunks == 3
\* Chunks a buffer handed to the decode rules is made of.
MaxParts == 3

(***************************************************************************)
(* Bytes and byte strings.                                                 *)
(***************************************************************************)
CR == "\r"
LF == "\n"
CRLF == <<CR, LF>>
CRLFCRLF == <<CR, LF, CR, LF>>

PyNone == "None"

Literals ==
    {"Content-Length:",
     "Content-Length: ",
     "content-length",
     "{\"jsonrpc\":\"2.0\"",
     ",\"id\":",
     ",\"method\":",
     ",\"params\":",
     ",\"result\":",
     ",\"error\":{\"code\":",
     ",\"message\":",
     "initialize",
     "tools/list",
     "tools/call",
     "ping",
     "shutdown",
     "frobnicate",
     "Method not found: ",
     "Internal error: ",
     "'list' object has no attribute 'get'",
     "null",
     "false",
     "None",
     "[1]",
     "[]",
     "{}",
     "0",
     "9",
     "\"\"",
     "-32601",
     "-32603",
     "{\"protocolVersion\":\"1.0.0\"}",
     "{\"tools\":[]}",
     "{\"content\":[],\"isError\":true}",
     "{x",
     "\"\\u00e9\""}

Utf8 ==
  [s \in Literals |->
    CASE s = "Content-Length:" ->
           <<"C", "o", "n", "t", "e", "n", "t", "-", "L", "e", "n", "g", "t", "h", ":">>
      [] s = "Content-Length: " ->
           <<"C", "o", "n", "t", "e", "n", "t", "-", "L", "e", "n", "g", "t", "h", ":", " ">>
      [] s = "content-length" ->
           <<"c", "o", "n", "t", "e", "n", "t", "-", "l", "e", "n", "g", "t", "h">>
      [] s = "{\"jsonrpc\":\"2.0\"" ->
           <<"{", "\"", "j", "s", "o", "n", "r", "p", "c", "\"", ":", "\"", "2", ".", "0", "\"">>
      [] s = ",\"id\":" ->
           <<",", "\"", "i", "d", "\"", ":">>
      [] s = ",\"method\":" ->
           <<",", "\"", "m", "e", "t", "h", "o", "d", "\"", ":">>
      [] s = ",\"params\":" ->
           <<",", "\"", "p", "a", "r", "a", "m", "s", "\"", ":">>
      [] s = ",\"result\":" ->
           <<",", "\"", "r", "e", "s", "u", "l", "t", "\"", ":">>
      [] s = ",\"error\":{\"code\":" ->
           <<",", "\"", "e", "r", "r", "o", "r", "\"", ":", "{", "\"", "c", "o", "d", "e", "\"", ":">>
      [] s = ",\"message\":" ->
           <<",", "\"", "m", "e", "s", "s", "a", "g", "e", "\"", ":">>
      [] s = "initialize" ->
           <<"i", "n", "i", "t", "i", "a", "l", "i", "z", "e">>
      [] s = "tools/list" ->
           <<"t", "o", "o", "l", "s", "/", "l", "i", "s", "t">>
      [] s = "tools/call" ->
           <<"t", "o", "o", "l", "s", "/", "c", "a", "l", "l">>
      [] s = "ping" ->
           <<"p", "i", "n", "g">>
      [] s = "shutdown" ->
           <<"s", "h", "u", "t", "d", "o", "w", "n">>
      [] s = "frobnicate" ->
           <<"f", "r", "o", "b", "n", "i", "c", "a", "t", "e">>
      [] s = "Method not found: " ->
           <<"M", "e", "t", "h", "o", "d", " ", "n", "o", "t", " ", "f", "o", "u", "n", "d", ":", " ">>
      [] s = "Internal error: " ->
           <<"I", "n", "t", "e", "r", "n", "a", "l", " ", "e", "r", "r", "o", "r", ":", " ">>
      [] s = "'list' object has no attribute 'get'" ->
           <<"'", "l", "i", "s", "t", "'", " ", "o", "b", "j", "e", "c", "t", " ", "h", "a", "s", " ", "n", "o", " ", "a", "t", "t", "r", "i", "b", "u", "t", "e", " ", "'", "g", "e", "t", "'">>
      [] s = "null" ->
           <<"n", "u", "l", "l">>
      [] s = "false" ->
           <<"f", "a", "l", "s", "e">>
      [] s = "None" ->
           <<"N", "o", "n", "e">>
      [] s = "[1]" ->
           <<"[", "1", "]">>
      [] s = "[]" ->
           <<"[", "]">>
      [] s = "{}" ->
           <<"{", "}">>
      [] s = "0" ->
           <<"0">>
      [] s = "9" ->
           <<"9">>
      [] s = "\"\"" ->
           <<"\"", "\"">>
      [] s = "-32601" ->
           <<"-", "3", "2", "6", "0", "1">>
      [] s = "-32603" ->
           <<"-", "3", "2", "6", "0", "3">>
      [] s = "{\"protocolVersion\":\"1.0.0\"}" ->
           <<"{", "\"", "p", "r", "o", "t", "o", "c", "o", "l", "V", "e", "r", "s", "i", "o", "n", "\"", ":", "\"", "1", ".", "0", ".", "0", "\"", "}">>
      [] s = "{\"tools\":[]}" ->
           <<"{", "\"", "t", "o", "o", "l", "s", "\"", ":", "[", "]", "}">>
      [] s = "{\"content\":[],\"isError\":true}" ->
           <<"{", "\"", "c", "o", "n", "t", "e", "n", "t", "\"", ":", "[", "]", ",", "\"", "i", "s", "E", "r", "r", "o", "r", "\"", ":", "t", "r", "u", "e", "}">>
      [] s = "{x" ->
           <<"{", "x">>
      [] s = "\"\\u00e9\"" ->
           <<"\"", "0xC3", "0xA9", "\"">>]

Min(S) == CHOOSE x \in S : \A y \in S : x <= y

\* s[lo:hi] of Python, for 0 <= lo and 0 <= hi.
Slice(s, lo, hi) ==
    LET h == IF hi > Len(s) THEN Len(s) ELSE hi
    IN  IF lo >= h THEN <<>> ELSE SubSeq(s, lo + 1, h)

\* s[lo:]
SliceFrom(s, lo) == Slice(s, lo, Len(s))

\* bytes.find(pat): the 0-based index of the first occurrence of pat, or -1.
Find(s, pat) ==
    LET hits == {i \in 0..(Len(s) - Len(pat)) : \A j \in 1..Len(pat) : s[i + j] = pat[j]}
    IN  IF hits = {} THEN -1 ELSE Min(hits)

\* bytes.startswith(pat)
StartsWith(s, pat) == Len(s) >= Len(pat) /\ \A j \in 1..Len(pat) : s[j] = pat[j]

\* What bytes.strip()/lstrip() and str.strip() remove (the ASCII whitespace in use).
Whitespace == {" ", "\t", LF, CR, "\f"}

RECURSIVE LStripSet(_, _)
LStripSet(s, chars) ==
    IF s # <<>> /\ Head(s) \in chars THEN LStripSet(Tail(s), chars) ELSE s

RECURSIVE RStripSet(_, _)
RStripSet(s, chars) ==
    IF s # <<>> /\ s[Len(s)] \in chars
    THEN RStripSet(SubSeq(s, 1, Len(s) - 1), chars)
    ELSE s

LStrip(s) == LStripSet(s, Whitespace)
Strip(s) == RStripSet(LStripSet(s, Whitespace), Whitespace)

\* bytes.lower() / str.lower() on the letters that occur in header names.
LowerByte(b) ==
    CASE b = "C" -> "c"
      [] b = "L" -> "l"
      [] b = "X" -> "x"
      [] OTHER -> b

Lower(s) == [i \in 1..Len(s) |-> LowerByte(s[i])]

DigitValue ==
    [d \in {"0", "1", "2", "3", "4", "5", "6", "7", "8", "9"} |->
        CASE d = "0" -> 0 [] d = "1" -> 1 [] d = "2" -> 2 [] d = "3" -> 3
          [] d = "4" -> 4 [] d = "5" -> 5 [] d = "6" -> 6 [] d = "7" -> 7
          [] d = "8" -> 8 [] d = "9" -> 9]

DigitByte == [n \in 0..9 |-> CHOOSE d \in DOMAIN DigitValue : DigitValue[d] = n]

RECURSIVE DigitsValue(_)
DigitsValue(s) ==
    IF s = <<>> THEN 0
    ELSE 10 * DigitsValue(SubSeq(s, 1, Len(s) - 1)) + DigitValue[s[Len(s)]]

\* int(text): [ok |-> TRUE, v |-> n] for an optionally signed, optionally
\* space-padded run of decimal digits, [ok |-> FALSE] where int() raises ValueError.
ParseInt(text) ==
    LET t == Strip(text)
        neg == t # <<>> /\ Head(t) = "-"
        d == IF t # <<>> /\ Head(t) \in {"-", "+"} THEN Tail(t) ELSE t
    IN  IF d # <<>> /\ \A i \in 1..Len(d) : d[i] \in DOMAIN DigitValue
        THEN [ok |-> TRUE, v |-> IF neg THEN 0 - DigitsValue(d) ELSE DigitsValue(d)]
        ELSE [ok |-> FALSE, v |-> 0]

\* str(n) for n >= 0, as the f-string of _write_lsp formats len(body).
RECURSIVE FormatInt(_)
FormatInt(n) ==
    IF n < 10 THEN <<DigitByte[n]>> ELSE FormatInt(n \div 10) \o <<DigitByte[n % 10]>>

(***************************************************************************)
(* JSON values and their compact text (json.dumps with separators          *)
(* (",", ":")), and json.loads as its inverse on the values of the model.  *)
(***************************************************************************)
Absent == "absent"    \* a key the dict does not hold

\* A string id of one character that takes two bytes in UTF-8.
NonAsciiId == "\"\\u00e9\""

Ids == {Absent, "null", "0", "\"\"", "false", "9"}
KnownMethods == {"initialize", "tools/list", "tools/call", "ping", "shutdown"}
Methods == KnownMethods \cup {"frobnicate", Absent}
ParamShapes == {Absent, "array"}

\* A decoded JSON object with the keys main reads, a JSON array, or the
\* number 9 as a value of its own.
Object(id, method, params) ==
    [shape |-> "object", id |-> id, method |-> method, params |-> params]
ArrayValue == [shape |-> "array", id |-> Absent, method |-> Absent, params |-> Absent]
ScalarValue == [shape |-> "scalar", id |-> Absent, method |-> Absent, params |-> Absent]
NoReq == [shape |-> "none", id |-> Absent, method |-> Absent, params |-> Absent]

JsonValues ==
    {Object(i, m, p) : i \in Ids, m \in Methods, p \in ParamShapes}
    \cup {ArrayValue, ScalarValue, Object(NonAsciiId, "ping", Absent)}

Quoted(text) == <<"\"">> \o text \o <<"\"">>

\* The text of an inbound value: {"jsonrpc":"2.0","id":..,"method":..,"params":..}
JsonDumps(v) ==
    IF v.shape = "array" THEN Utf8["[]"]
    ELSE IF v.shape = "scalar" THEN Utf8["9"]
    ELSE Utf8["{\"jsonrpc\":\"2.0\""]
         \o (IF v.id = Absent THEN <<>> ELSE Utf8[",\"id\":"] \o Utf8[v.id])
         \o (IF v.method = Absent THEN <<>>
             ELSE Utf8[",\"method\":"] \o Quoted(Utf8[v.method]))
         \o (IF v.params = Absent THEN <<>> ELSE Utf8[",\"params\":"] \o Utf8["[1]"])
         \o <<"}">>

JsonText == [v \in JsonValues |-> JsonDumps(v)]

\* json.loads(text): the value whose text it is, or a parse failure.
JsonLoads(text) ==
    LET t == Strip(text)
    IN  IF \E v \in JsonValues : JsonText[v] = t
        THEN [ok |-> TRUE, value |-> CHOOSE v \in JsonValues : JsonText[v] = t]
        ELSE [ok |-> FALSE, value |-> NoReq]

\* dict.get(key) on a decoded object: None for an absent key and for JSON null.
Get(v, key) ==
    LET x == IF key = "id" THEN v.id ELSE IF key = "method" THEN v.method ELSE v.params
    IN  IF x \in {Absent, "null"} THEN PyNone ELSE x

(***************************************************************************)
(* Replies.                                                                *)
(***************************************************************************)
\* The code of the except branch of main.
InternalError == -32603

\* Mutant of the method-not-found code: the internal-error code is reused.
MethodNotFoundReused == InternalError

\* The code of the else branch of main's dispatch.
MethodNotFound == -32601

\* The payloads of write_result and write_error.
ResultPayload(id_value, result) ==
    [id |-> id_value, kind |-> "result", result |-> result, code |-> 0, message |-> <<>>]
ErrorPayload(id_value, code, message) ==
    [id |-> id_value, kind |-> "error", result |-> "", code |-> code, message |-> message]

\* json.dumps of a reply payload.  The results of initialize, tools/list and
\* tools/call are abridged to a short object; the empty result is exact.
ReplyText(payload) ==
    Utf8["{\"jsonrpc\":\"2.0\""] \o Utf8[",\"id\":"] \o Utf8[payload.id]
    \o (IF payload.kind = "result"
        THEN Utf8[",\"result\":"] \o Utf8[payload.result]
        ELSE Utf8[",\"error\":{\"code\":"] \o <<"-">> \o FormatInt(0 - payload.code)
             \o Utf8[",\"message\":"] \o Quoted(payload.message) \o <<"}">>)
    \o <<"}">>

\* Mutant of the ndjson encoding: the newline is missing.
EncodeNdjsonBare(text) == text

\* _write_ndjson after json.dumps: the text and one newline.
EncodeNdjson(text) == text \o <<LF>>

\* len() of the text the bytes encode: continuation bytes do not count.
CharLen(bytes) == Cardinality({i \in 1..Len(bytes) : bytes[i] # "0xA9"})

\* Mutant of _write_lsp: the header counts characters, not bytes.
EncodeLspCharCount(body) ==
    Utf8["Content-Length: "] \o FormatInt(CharLen(body)) \o CRLFCRLF \o body

\* _write_lsp after json.dumps: header with the body's length, blank line, body.
EncodeLsp(body) ==
    Utf8["Content-Length: "] \o FormatInt(Len(body)) \o CRLFCRLF \o body

\* _write_lsp(payload)
WriteLsp(payload) == EncodeLsp(ReplyText(payload))

\* _write_ndjson(payload)
WriteNdjson(payload) == EncodeNdjson(ReplyText(payload))

\* Mutant of write_message: the mode is ignored.
WriteMessageNdjsonOnly(mode, payload) == WriteNdjson(payload)

\* write_message(payload) under the current TRANSPORT_MODE.
WriteMessage(mode, payload) ==
    IF mode = "lsp" THEN WriteLsp(payload) ELSE WriteNdjson(payload)

\* One write_message call: the payload and the bytes put on stdout.
WriteRecord(mode, payload) == [payload |-> payload, data |-> WriteMessage(mode, payload)]

(***************************************************************************)
(* The server's reader (read_message, _read_ndjson_from, _read_lsp_from).  *)
(***************************************************************************)
\* Mutant of readline: a line is handed over only once a byte of what
\* follows it has arrived, or the peer has closed.
ReadLineGreedy(s, closed) ==
    LET nl == Find(s, <<LF>>)
    IN  IF nl >= 0 /\ (closed \/ Len(s) > nl + 1)
        THEN [ready |-> TRUE, line |-> Slice(s, 0, nl + 1), rest |-> SliceFrom(s, nl + 1)]
        ELSE IF closed
             THEN [ready |-> TRUE, line |-> s, rest |-> <<>>]
             ELSE [ready |-> FALSE, line |-> <<>>, rest |-> s]

\* sys.stdin.buffer.readline() on the pipe: the bytes up to and including the
\* first newline; at end-of-stream what is left (empty at EOF); not ready while
\* the line is incomplete and the peer has not closed.
ReadLine(s, closed) ==
    LET nl == Find(s, <<LF>>)
    IN  IF nl >= 0
        THEN [ready |-> TRUE, line |-> Slice(s, 0, nl + 1), rest |-> SliceFrom(s, nl + 1)]
        ELSE IF closed
             THEN [ready |-> TRUE, line |-> s, rest |-> <<>>]
             ELSE [ready |-> FALSE, line |-> <<>>, rest |-> s]

\* The dict `headers`, a function from lower-cased names to values, kept for
\* the one name that is ever looked up in it.
NoHeaders == <<>>

\* add_header(line): split at the first colon; a line without one is skipped.
AddHeader(h, line) ==
    LET c == Find(line, <<":">>)
    IN  IF c < 0 THEN h
        ELSE LET k == Lower(Strip(Slice(line, 0, c)))
                 v == Strip(SliceFrom(line, c + 1))
             IN  IF k = Utf8["content-length"]
                 THEN [x \in {k} |-> v]
                 ELSE h

\* int(headers.get("content-length", "0")), 0 on ValueError.
ContentLength(h) ==
    IF Utf8["content-length"] \in DOMAIN h
    THEN LET p == ParseInt(h[Utf8["content-length"]]) IN IF p.ok THEN p.v ELSE 0
    ELSE 0

\* _read_ndjson_from(first_line)
ReadNdjsonFrom(first_line) == JsonLoads(Strip(first_line))

\* What a line looks like to a reader that has not chosen a framing yet
\* (history only): JSON text, a header line, a blank line, or anything else.
LineClass(line) ==
    LET stripped == LStrip(line)
    IN  IF StartsWith(stripped, <<"{">>) \/ StartsWith(stripped, <<"[">>) THEN "json"
        ELSE IF stripped = <<>> THEN "blank"
        ELSE IF Find(line, <<":">>) >= 0 THEN "header"
        ELSE "other"

\* Mutant of the rule selection: the cached mode decides once it is set.
SelectRuleCached(mode, first_line) ==
    IF mode # PyNone THEN mode
    ELSE IF LineClass(first_line) = "json" THEN "ndjson" ELSE "lsp"

\* The rule read_message selects for the message that starts with first_line.
SelectRule(mode, first_line) ==
    LET stripped == LStrip(first_line)
    IN  IF StartsWith(stripped, <<"{">>) \/ StartsWith(stripped, <<"[">>)
        THEN "ndjson"
        ELSE "lsp"

\* Mutant of the assignment: the `TRANSPORT_MODE or` is missing.
SetModeOverwrite(mode, framing) == framing

\* TRANSPORT_MODE = TRANSPORT_MODE or <framing>
SetMode(mode, framing) == IF mode # PyNone THEN mode ELSE framing

(***************************************************************************)
(* The server's handlers and one iteration of main after read_message.     *)
(***************************************************************************)
EmptyResult == "{}"
InitializeResult == "{\"protocolVersion\":\"1.0.0\"}"
ToolsResult == "{\"tools\":[]}"
CallResult == "{\"content\":[],\"isError\":true}"

AttributeErrorText == Utf8["'list' object has no attribute 'get'"]

\* req.get("params", {}) or {}
Params(r) == IF Get(r, "params") = PyNone THEN "dict" ELSE "list"

\* resp_initialize(params): params.get raises on a list.
RespInitialize(params) ==
    IF params = "dict"
    THEN [raised |-> FALSE, result |-> InitializeResult, message |-> <<>>]
    ELSE [raised |-> TRUE, result |-> "", message |-> AttributeErrorText]

\* call_tool(params): params.get raises on a list; every later fault is
\* caught and returned as content.
CallTool(params) ==
    IF params = "dict"
    THEN [raised |-> FALSE, result |-> CallResult, message |-> <<>>]
    ELSE [raised |-> TRUE, result |-> "", message |-> AttributeErrorText]

\* What the try block of main computes for a known method before it writes.
Handler(method, r) ==
    CASE method = "initialize" -> RespInitialize(Params(r))
      [] method = "tools/list" ->
            [raised |-> FALSE, result |-> ToolsResult, message |-> <<>>]
      [] method = "tools/call" -> CallTool(Params(r))
      [] OTHER -> [raised |-> FALSE, result |-> EmptyResult, message |-> <<>>]

\* Mutants of the notification test: `if not req_id`, and no test at all.
IsNotificationIdFalsy(req_id) == req_id \in {PyNone, "0", "\"\"", "false"}
IsNotificationIdNever(req_id) == FALSE

\* `if req_id is None: continue`
IsNotificationId(req_id) == req_id = PyNone

\* Mutant of the loop control: the `break` is missing.
LoopControlNoBreak(method) == "read"

\* `break` after the shutdown reply; every other branch falls to the loop top.
LoopControl(method) == IF method = "shutdown" THEN "exited" ELSE "read"

\* Mutant of the iteration: the reply is put off and nothing is written.
MainIterationDeferred(mode, r) == [writes |-> <<>>, next |-> "read"]

\* main, from `method = req.get("method")` to the end of the iteration, for a
\* dict req: the writes it makes and where the loop goes next.
MainIteration(mode, r) ==
    LET method == Get(r, "method")
        req_id == Get(r, "id")
    IN  IF IsNotificationId(req_id)
        THEN [writes |-> <<>>, next |-> "read"]
        ELSE IF method \in KnownMethods
        THEN LET h == Handler(method, r)
             IN  IF h.raised
                 THEN [writes |-> <<WriteRecord(mode,
                                     ErrorPayload(req_id, InternalError,
                                         Utf8["Internal error: "] \o h.message))>>,
                       next |-> "read"]
                 ELSE [writes |-> <<WriteRecord(mode, ResultPayload(req_id, h.result))>>,
                       next |-> LoopControl(method)]
        ELSE [writes |-> <<WriteRecord(mode,
                            ErrorPayload(req_id, MethodNotFound,
                                Utf8["Method not found: "] \o Utf8[method]))>>,
              next |-> "read"]

(***************************************************************************)
(* The peer of the server: what it may put on the server's stdin.          *)
(***************************************************************************)
NdjsonFrame(v) == JsonText[v] \o <<LF>>

LspFrame(v) ==
    LET body == JsonText[v]
    IN  Utf8["Content-Length: "] \o FormatInt(Len(body)) \o CRLFCRLF \o body

\* Requests and notifications sent as ndjson lines.
NdjsonValues ==
    {Object(i, m, Absent) : i \in Ids, m \in {"ping", "frobnicate"}}
    \cup {Object(i, "shutdown", Absent) : i \in {"9", Absent}}
    \cup {Object("9", m, p) : m \in {"initialize", "tools/call"}, p \in ParamShapes}
    \cup {Object("9", "tools/list", Absent), Object(Absent, "tools/call", Absent),
          Object("9", Absent, Absent), ArrayValue}

\* Requests and notifications sent as lsp frames.
LspValues ==
    {Object(i, m, Absent) : i \in {"9", Absent}, m \in {"ping", "frobnicate"}}
    \cup {Object("9", "shutdown", Absent)}

\* Input that is no well-formed frame: a blank line, a line of text, a line
\* that is not JSON, an ndjson line behind a space, one more header line, an
\* lsp frame whose body is not JSON, an lsp frame cut off inside its body.
OtherInput ==
    {<<LF>>,
     Utf8["Content-Length: "] \o <<"2">> \o CRLFCRLF \o <<"{">>,
     <<"x", LF>>,
     Utf8["{x"] \o <<LF>>,
     <<" ">> \o NdjsonFrame(Object("9", "ping", Absent)),
     <<"X", ":", "1">> \o CRLF,
     Utf8["Content-Length: "] \o <<"2">> \o CRLFCRLF \o Utf8["{x"]}

PeerFrames ==
    {NdjsonFrame(v) : v \in NdjsonValues} \cup {LspFrame(v) : v \in LspValues}
    \cup OtherInput

(***************************************************************************)
(* The server process.                                                     *)
(***************************************************************************)
\* Nothing is known of how the peer made its bytes.
NoSent == [mode |-> PyNone, value |-> NoReq, tail |-> <<>>]

InitServer ==
    /\ stdin = <<>>
    /\ eof = FALSE
    /\ pending = 0
    /\ TRANSPORT_MODE = PyNone
    /\ pc = "read"
    /\ req = NoReq
    /\ headers = NoHeaders
    /\ written = <<>>
    /\ rule = PyNone
    /\ lineClass = "unread"
    /\ firstClass = "unread"
    /\ sent = NoSent

ServerOff ==
    /\ stdin = <<>>
    /\ eof = TRUE
    /\ pending = 0
    /\ TRANSPORT_MODE = PyNone
    /\ pc = "off"
    /\ req = NoReq
    /\ headers = NoHeaders
    /\ written = <<>>
    /\ rule = PyNone
    /\ lineClass = "unread"
    /\ firstClass = "unread"
    /\ sent = NoSent

\* The peer writes one more frame to the pipe.  (A frame written between a
\* reply and the jump back to the top of the loop is one written after it.)
PeerSend ==
    /\ pc \in {"read", "lsp_headers", "lsp_body", "dispatch"}
    /\ ~eof
    /\ pending < MaxPending
    /\ \E f \in PeerFrames : stdin' = stdin \o f
    /\ pending' = pending + 1
    /\ UNCHANGED <<eof, TRANSPORT_MODE, pc, req, headers, written, rule, lineClass,
                   firstClass>>
    /\ UNCHANGED <<sent, notServerVars>>

\* The peer closes its end.
PeerClose ==
    /\ pc \in {"read", "lsp_headers", "lsp_body", "dispatch"}
    /\ ~eof
    /\ eof' = TRUE
    /\ UNCHANGED <<stdin, pending, TRANSPORT_MODE, pc, req, headers, written, rule,
                   lineClass, firstClass>>
    /\ UNCHANGED <<sent, notServerVars>>

\* read_message up to the choice of the rule, and _read_ndjson_from; main's
\* `if req is None: break`.
ReadFirstLine ==
    /\ pc = "read"
    /\ LET r == ReadLine(stdin, eof)
       IN  /\ r.ready
           /\ stdin' = r.rest
           /\ firstClass' = IF firstClass = "unread" THEN LineClass(r.line) ELSE firstClass
           /\ IF r.line = <<>>
              THEN /\ pc' = "exited"
                   /\ req' = NoReq
                   /\ rule' = PyNone
                   /\ lineClass' = "unread"
                   /\ UNCHANGED <<TRANSPORT_MODE, headers>>
              ELSE LET selected == SelectRule(TRANSPORT_MODE, r.line)
                   IN  /\ rule' = selected
                       /\ lineClass' = LineClass(r.line)
                       /\ TRANSPORT_MODE' = SetMode(TRANSPORT_MODE, selected)
                       /\ IF selected = "ndjson"
                          THEN LET d == ReadNdjsonFrom(r.line)
                               IN  /\ req' = d.value
                                   /\ pc' = IF d.ok THEN "dispatch" ELSE "exited"
                                   /\ headers' = NoHeaders
                          ELSE /\ headers' = IF r.line \in {CRLF, <<LF>>}
                                             THEN NoHeaders
                                             ELSE AddHeader(NoHeaders, r.line)
                               /\ pc' = "lsp_headers"
                               /\ UNCHANGED req
    /\ UNCHANGED <<eof, pending, written>>
    /\ UNCHANGED <<sent, notServerVars>>

\* _read_lsp_from: one turn of the header loop, and the length check after it.
LspHeaderLine ==
    /\ pc = "lsp_headers"
    /\ LET r == ReadLine(stdin, eof)
       IN  /\ r.ready
           /\ stdin' = r.rest
           /\ IF r.line = <<>>
              THEN pc' = "exited" /\ req' = NoReq /\ headers' = NoHeaders
              ELSE IF r.line \in {CRLF, <<LF>>}
              THEN IF ContentLength(headers) <= 0
                   THEN pc' = "exited" /\ req' = NoReq /\ headers' = NoHeaders
                   ELSE pc' = "lsp_body" /\ UNCHANGED <<req, headers>>
              ELSE pc' = "lsp_headers" /\ headers' = AddHeader(headers, r.line)
                   /\ UNCHANGED req
    /\ UNCHANGED <<eof, pending, TRANSPORT_MODE, written, rule, lineClass, firstClass>>
    /\ UNCHANGED <<sent, notServerVars>>

\* _read_lsp_from: read(n) and json.loads of the body.
LspBody ==
    /\ pc = "lsp_body"
    /\ LET n == ContentLength(headers)
           body == Slice(stdin, 0, n)
           d == JsonLoads(body)
       IN  /\ Len(stdin) >= n \/ eof
           /\ stdin' = SliceFrom(stdin, n)
           /\ IF body = <<>> \/ Len(body) # n \/ ~d.ok
              THEN pc' = "exited" /\ req' = NoReq
              ELSE pc' = "dispatch" /\ req' = d.value
           /\ headers' = NoHeaders
    /\ UNCHANGED <<eof, pending, TRANSPORT_MODE, written, rule, lineClass, firstClass>>
    /\ UNCHANGED <<sent, notServerVars>>

\* main after read_message returned a value: req.get on a value that is no
\* dict raises out of main; otherwise the iteration runs to its last write.
Dispatch ==
    /\ pc = "dispatch"
    /\ IF req.shape # "object"
       THEN pc' = "crashed" /\ UNCHANGED written
       ELSE /\ written' = written \o MainIteration(TRANSPORT_MODE, req).writes
            /\ pc' = "iterated"
    /\ UNCHANGED <<stdin, eof, pending, TRANSPORT_MODE, req, headers, rule, lineClass,
                   firstClass>>
    /\ UNCHANGED <<sent, notServerVars>>

\* The end of the iteration: `break` after shutdown, otherwise back to the top
\* of `while True`, where req and the record of the iteration's writes are dead.
LoopBack ==
    /\ pc = "iterated"
    /\ IF MainIteration(TRANSPORT_MODE, req).next = "exited"
       THEN pc' = "exited" /\ UNCHANGED <<req, written, rule, lineClass, pending>>
       ELSE /\ pc' = "read" /\ req' = NoReq /\ written' = <<>>
            /\ rule' = PyNone /\ lineClass' = "unread"
            /\ pending' = IF stdin = <<>> THEN 0 ELSE pending
    /\ UNCHANGED <<stdin, eof, TRANSPORT_MODE, headers, firstClass>>
    /\ UNCHANGED <<sent, notServerVars>>

NextServer ==
    \/ PeerSend
    \/ PeerClose
    \/ ReadFirstLine
    \/ LspHeaderLine
    \/ LspBody
    \/ Dispatch
    \/ LoopBack

(***************************************************************************)
(* The debug wrapper's decode rules and detector.  A rule returns          *)
(* [found, data, consumed]; Python's None is found = FALSE.                *)
(***************************************************************************)
NotFound == [found |-> FALSE, data |-> <<>>, consumed |-> 0]

\* Mutant of try_parse_ndjson: the count is taken from the stripped line.
TryParseNdjsonShort(buffer) ==
    LET nl == Find(buffer, <<LF>>)
    IN  IF nl = -1 THEN [found |-> FALSE, data |-> <<>>, consumed |-> 0]
        ELSE LET data == RStripSet(Slice(buffer, 0, nl + 1), {CR, LF})
             IN  [found |-> TRUE, data |-> data, consumed |-> Len(data) + 1]

\* try_parse_ndjson(buffer)
TryParseNdjson(buffer) ==
    LET nl == Find(buffer, <<LF>>)
    IN  IF nl = -1 THEN NotFound
        ELSE LET line == Slice(buffer, 0, nl + 1)
             IN  [found |-> TRUE, data |-> RStripSet(line, {CR, LF}), consumed |-> nl + 1]

\* headers_blob.split(b"\r\n")
RECURSIVE SplitCRLF(_)
SplitCRLF(blob) ==
    LET i == Find(blob, CRLF)
    IN  IF i = -1 THEN <<blob>>
        ELSE <<Slice(blob, 0, i)>> \o SplitCRLF(SliceFrom(blob, i + 2))

\* The loop over the header lines of try_parse_lsp, for the one name that is
\* looked up afterwards: the value of the last content-length line, or
\* <<"0">>, the default of headers.get.
RECURSIVE HeaderValue(_)
HeaderValue(lines) ==
    IF lines = <<>> THEN <<"0">>
    ELSE LET raw_line == lines[Len(lines)]
             c == Find(raw_line, <<":">>)
         IN  IF /\ raw_line # <<>>
                /\ c >= 0
                /\ Lower(Strip(Slice(raw_line, 0, c))) = Utf8["content-length"]
             THEN Strip(SliceFrom(raw_line, c + 1))
             ELSE HeaderValue(SubSeq(lines, 1, Len(lines) - 1))

\* Mutant of try_parse_lsp: the bytes at hand are returned without waiting
\* for the declared length.
TryParseLspEager(buffer) ==
    LET sep == Find(buffer, CRLFCRLF)
    IN  IF sep = -1 THEN [found |-> FALSE, data |-> <<>>, consumed |-> 0]
        ELSE [found |-> TRUE, data |-> SliceFrom(buffer, sep + 4),
              consumed |-> Len(buffer)]

\* try_parse_lsp(buffer)
TryParseLsp(buffer) ==
    LET sep == Find(buffer, CRLFCRLF)
    IN  IF sep = -1 THEN NotFound
        ELSE LET headers_blob == Slice(buffer, 0, sep + 4)
                 p == ParseInt(HeaderValue(SplitCRLF(headers_blob)))
                 n == IF p.ok THEN p.v ELSE 0
                 start == sep + 4
             IN  IF n <= 0 THEN NotFound
                 ELSE IF Len(buffer) < start + n THEN NotFound
                 ELSE [found |-> TRUE, data |-> Slice(buffer, start, start + n),
                       consumed |-> start + n]

\* buffer[:128]
WindowLen == 128

\* The test in front of the lsp rule in sniff_and_summarize.
LspTest(buffer) ==
    \/ StartsWith(buffer, Utf8["Content-Length:"])
    \/ Find(Slice(buffer, 0, WindowLen), CRLFCRLF) >= 0

\* Mutant of the ndjson test: leading whitespace is skipped first.
NdjsonTestStripped(buffer) == Slice(LStrip(buffer), 0, 1) \in {<<"{">>, <<"[">>}

\* The test in front of the ndjson rule: buffer[:1] in (b"{", b"[").
NdjsonTest(buffer) == Slice(buffer, 0, 1) \in {<<"{">>, <<"[">>}

NoMessage == [kind |-> "none", data |-> <<>>, consumed |-> 0]

\* sniff_and_summarize(prefix, buffer): which message it logs and the count it
\* returns (None is consumed = 0 with kind "none").
SniffAndSummarize(buffer) ==
    LET lsp == TryParseLsp(buffer)
        nd == TryParseNdjson(buffer)
    IN  IF LspTest(buffer) /\ lsp.found
        THEN [kind |-> "lsp", data |-> lsp.data, consumed |-> lsp.consumed]
        ELSE IF NdjsonTest(buffer) /\ nd.found
        THEN [kind |-> "ndjson", data |-> nd.data, consumed |-> nd.consumed]
        ELSE NoMessage

(***************************************************************************)
(* The byte pump of the proxy.                                             *)
(***************************************************************************)
RECURSIVE Concat(_)
Concat(chunks) == IF chunks = <<>> THEN <<>> ELSE Head(chunks) \o Concat(Tail(chunks))

SeqsUpTo(S, n) == UNION {[1..k -> S] : k \in 0..n}

\* What a source stream is made of: an ndjson line, an lsp frame, a line
\* behind a space, a line that is not JSON, and loose bytes.
StreamChunks ==
    {Utf8["{}"] \o <<LF>>,
     <<"{", "x", LF>>,
     Utf8["[1]"] \o <<LF>>,
     Utf8["Content-Length: "] \o <<"2">> \o CRLFCRLF \o Utf8["{}"],
     <<" ">> \o Utf8["{}"] \o <<LF>>,
     <<"x">>,
     <<LF>>,
     CRLFCRLF}

Streams == {Concat(c) : c \in SeqsUpTo(StreamChunks, MaxChunks)}

InitPump ==
    /\ srcAll \in Streams
    /\ src = srcAll
    /\ dst = <<>>
    /\ tap = <<>>
    /\ buf = <<>>
    /\ detected = <<>>
    /\ ppc = "pumping"
    /\ fault = PyNone

PumpOff ==
    /\ srcAll = <<>>
    /\ src = <<>>
    /\ dst = <<>>
    /\ tap = <<>>
    /\ buf = <<>>
    /\ detected = <<>>
    /\ ppc = "off"
    /\ fault = PyNone

\* What the log of one detection shows: the kind of the message and the two
\* tests of the buffer it was found in; with it, the bytes the rule
\* returned and the bytes buf[:consumed] that the count covers.
Detection(buffer, m) ==
    [kind |-> m.kind, lspTest |-> LspTest(buffer), first |-> Slice(buffer, 0, 1),
     data |-> m.data, piece |-> Slice(buffer, 0, m.consumed)]

\* Mutant of the truncation: del buf[consumed:], the tail goes and the head
\* stays.
DropTail(buffer, consumed) == Slice(buffer, 0, consumed)

\* del buf[:consumed]
Drop(buffer, consumed) == SliceFrom(buffer, consumed)

\* Mutant of dst.write: a newline is not forwarded.
ForwardNoNewline(sink, data) == IF data = <<LF>> THEN sink ELSE sink \o data

\* dst.write(data); dst.flush()
Forward(sink, data) == sink \o data

\* Mutant of tap.write: the tee gets the byte twice.
TeeTwice(file, data) == file \o data \o data

\* tap.write(data); tap.flush()
Tee(file, data) == file \o data

\* Mutant of the read: two bytes at a time.
SrcReadTwo(s) == Slice(s, 0, 2)

\* data = src.read(1)
SrcRead(s) == Slice(s, 0, 1)

\* One turn of pump's loop for a byte read from the source: forward, tee,
\* accumulate, detect, drop, and detect once more.
PumpByte ==
    /\ ppc = "pumping"
    /\ src # <<>>
    /\ LET data == SrcRead(src)
           buf1 == buf \o data
           m1 == SniffAndSummarize(buf1)
           buf2 == Drop(buf1, m1.consumed)
           m2 == SniffAndSummarize(buf2)
       IN  /\ src' = SliceFrom(src, Len(data))
           /\ dst' = Forward(dst, data)
           /\ tap' = Tee(tap, data)
           /\ IF m1.consumed > 0
              THEN IF m2.consumed > 0
                   THEN /\ buf' = Drop(buf2, m2.consumed)
                        /\ detected' = detected \o <<Detection(buf1, m1), Detection(buf2, m2)>>
                   ELSE /\ buf' = buf2
                        /\ detected' = Append(detected, Detection(buf1, m1))
              ELSE /\ buf' = buf1
                   /\ UNCHANGED detected
    /\ UNCHANGED <<srcAll, ppc, fault>>
    /\ UNCHANGED notPumpVars

\* The calls of one turn that can raise: src.read, dst.write or dst.flush,
\* tap.write or tap.flush, and logger.log inside the first or the second
\* sniff_and_summarize (its file or stderr refusing the record).
FaultPoints == {"read", "dst", "tap", "log", "log2"}

\* One turn of pump's loop in which a call raises: what ran before the call
\* has happened, the `except Exception` around the loop logs the error, the
\* `finally` closes the tee file, and pump returns.
PumpFault ==
    /\ ppc = "pumping"
    /\ \E at \in FaultPoints :
          LET data == SrcRead(src)
              buf1 == buf \o data
              m1 == SniffAndSummarize(buf1)
              buf2 == Drop(buf1, m1.consumed)
              m2 == SniffAndSummarize(buf2)
          IN  /\ fault' = at
              /\ at # "read" => src # <<>>
              /\ at = "log" => m1.consumed > 0
              /\ at = "log2" => (m1.consumed > 0 /\ m2.consumed > 0)
              /\ src' = IF at = "read" THEN src ELSE SliceFrom(src, Len(data))
              /\ dst' = IF at \in {"read", "dst"} THEN dst ELSE Forward(dst, data)
              /\ tap' = IF at \in {"read", "dst", "tap"} THEN tap ELSE Tee(tap, data)
              /\ buf' = CASE at = "log" -> buf1
                           [] at = "log2" -> buf2
                           [] OTHER -> buf
              /\ detected' = IF at = "log2"
                              THEN Append(detected, Detection(buf1, m1))
                              ELSE detected
    /\ ppc' = "failed"
    /\ UNCHANGED srcAll
    /\ UNCHANGED notPumpVars

\* src.read(1) returns b"": break, and the tee file is closed.
PumpEof ==
    /\ ppc = "pumping"
    /\ src = <<>>
    /\ ppc' = "done"
    /\ UNCHANGED <<src, srcAll, dst, tap, buf, detected, fault>>
    /\ UNCHANGED notPumpVars

NextPump ==
    \/ PumpByte
    \/ PumpFault
    \/ PumpEof

(***************************************************************************)
(* The decode rules applied to buffers of any content, and the caller's    *)
(* truncation by the count returned.                                       *)
(***************************************************************************)
PadLen == 123
Pad == [i \in 1..PadLen |-> "x"]

BufferParts ==
    {Utf8["{}"],
     Utf8["[]"],
     <<LF>>,
     CRLF,
     <<" ">>,
     <<"x">>,
     Utf8["Content-Length:"],
     Utf8["Content-Length: "] \o <<"2">> \o CRLFCRLF,
     CRLFCRLF,
     Pad}

Buffers == {Concat(c) : c \in SeqsUpTo(BufferParts, MaxParts)}

NoResult ==
    [nd |-> NotFound, lsp |-> NotFound, sniff |-> NoMessage, input |-> <<>>]

InitParse ==
    /\ fbuf \in Buffers
    /\ fres = NoResult
    /\ fpc = "start"

ParseOff ==
    /\ fbuf = <<>>
    /\ fres = NoResult
    /\ fpc = "off"

\* Mutant of the detector: it drops what it found from the buffer itself.
BufferAfterRulesEager(buffer) == Drop(buffer, SniffAndSummarize(buffer).consumed)

\* The bytearray after try_parse_ndjson, try_parse_lsp and
\* sniff_and_summarize were called on it: they call find, startswith and
\* slices on it, and no method that changes it.
BufferAfterRules(buffer) == buffer

\* Both rules and the detector are applied to the buffer.
ApplyRules ==
    /\ fpc = "start"
    /\ fres' = [nd |-> TryParseNdjson(fbuf), lsp |-> TryParseLsp(fbuf),
                sniff |-> SniffAndSummarize(fbuf), input |-> fbuf]
    /\ fpc' = "parsed"
    /\ fbuf' = BufferAfterRules(fbuf)
    /\ UNCHANGED notParseVars

\* Both rules and the detector are applied once more to the buffer as the
\* first application left it.
ApplyAgain ==
    /\ fpc = "parsed"
    /\ fres' = [nd |-> TryParseNdjson(fbuf), lsp |-> TryParseLsp(fbuf),
                sniff |-> SniffAndSummarize(fbuf), input |-> fbuf]
    /\ fpc' = "reparsed"
    /\ fbuf' = BufferAfterRules(fbuf)
    /\ UNCHANGED notParseVars

\* The caller drops what the detector consumed: `if consumed: del buf[:consumed]`.
Truncate ==
    /\ fpc = "parsed"
    /\ fres.sniff.consumed > 0
    /\ fbuf' = Drop(fbuf, fres.sniff.consumed)
    /\ fpc' = "dropped"
    /\ UNCHANGED fres
    /\ UNCHANGED notParseVars

NextParse ==
    \/ ApplyRules
    \/ ApplyAgain
    \/ Truncate

(***************************************************************************)
(* Logger.log called from the three threads of run_proxy: the two pumps    *)
(* and the mirror of the child's stderr.  Each call opens LOG_FILE for     *)
(* append with a file object of its own, writes the formatted line to it,  *)
(* closes it, and then writes the line to sys.stderr.  An append-mode      *)
(* write of one buffer is taken to be one append to the file, and one      *)
(* write call on the line-buffered sys.stderr to put its text out whole.   *)
(***************************************************************************)
\* Log calls one thread makes.
MaxRecords == 1

Threads == {"c2s", "s2c", "stderr"}

ThreadTag == [t \in Threads |-> CASE t = "c2s" -> "C" [] t = "s2c" -> "S" [] OTHER -> "E"]

\* line = f"[{ts}] [{elapsed:8.3f}s] [{cat:10s}] {msg}\n", for the k-th call
\* of thread t: a bracketed head that names the call, and the newline.
FormatLine(t, k) == <<"[", ThreadTag[t], DigitByte[k], "]", LF>>

\* Mutant of the write through the file object: head and rest of the line
\* reach the file in two appends.
FileWritesSplit(line) == <<Slice(line, 0, 2), SliceFrom(line, 2)>>

\* What reaches the file for f.write(line) on a file object that is closed
\* right after: the buffered text, in one write at the close.
FileWrites(line) == <<line>>

InitLog ==
    /\ logFile = <<>>
    /\ errOut = <<>>
    /\ lpc = [t \in Threads |-> "idle"]
    /\ lbuf = [t \in Threads |-> <<>>]
    /\ ldone = [t \in Threads |-> 0]

LogOff ==
    /\ logFile = <<>>
    /\ errOut = <<>>
    /\ lpc = [t \in Threads |-> "off"]
    /\ lbuf = [t \in Threads |-> <<>>]
    /\ ldone = [t \in Threads |-> 0]

\* log(cat, msg) is entered: the line is formatted and the file opened.
LogOpen(t) ==
    /\ lpc[t] = "idle"
    /\ ldone[t] < MaxRecords
    /\ lpc' = [lpc EXCEPT ![t] = "opened"]
    /\ UNCHANGED <<logFile, errOut, lbuf, ldone>>
    /\ UNCHANGED notLogVars

\* f.write(line)
LogWrite(t) ==
    /\ lpc[t] = "opened"
    /\ lbuf' = [lbuf EXCEPT ![t] = FileWrites(FormatLine(t, ldone[t] + 1))]
    /\ lpc' = [lpc EXCEPT ![t] = "buffered"]
    /\ UNCHANGED <<logFile, errOut, ldone>>
    /\ UNCHANGED notLogVars

\* The end of the `with` block: what is buffered is appended and the file
\* closed.
LogClose(t) ==
    /\ lpc[t] = "buffered"
    /\ logFile' = logFile \o Head(lbuf[t])
    /\ lbuf' = [lbuf EXCEPT ![t] = Tail(lbuf[t])]
    /\ lpc' = [lpc EXCEPT ![t] = IF Tail(lbuf[t]) = <<>> THEN "closed" ELSE "buffered"]
    /\ UNCHANGED <<errOut, ldone>>
    /\ UNCHANGED notLogVars

\* sys.stderr.write(line); sys.stderr.flush(); log returns.
LogStderr(t) ==
    /\ lpc[t] = "closed"
    /\ errOut' = errOut \o FormatLine(t, ldone[t] + 1)
    /\ ldone' = [ldone EXCEPT ![t] = ldone[t] + 1]
    /\ lpc' = [lpc EXCEPT ![t] = "idle"]
    /\ UNCHANGED <<logFile, lbuf>>
    /\ UNCHANGED notLogVars

NextLog ==
    \/ \E t \in Threads : LogOpen(t)
    \/ \E t \in Threads : LogWrite(t)
    \/ \E t \in Threads : LogClose(t)
    \/ \E t \in Threads : LogStderr(t)

(***************************************************************************)
(* run_tripwire: the wrapper reads the start of the client's stream, logs  *)
(* what it finds and returns.  tin holds the bytes the client sends before *)
(* it closes; readline takes a line of them, read1 whatever part of the    *)
(* rest has arrived.                                                       *)
(***************************************************************************)
\* read1(8192)
ReadMax == 8192

\* buf[:256]
RawShown == 256

Record(rec, kind, n, data) == [rec |-> rec, kind |-> kind, n |-> n, data |-> data]

\* summarize_json_bytes(prefix, data): the one record it logs; a summary
\* holds the method and, in data, the id.
SummarizeJsonBytes(data) ==
    LET t == Strip(data)
        obj == JsonLoads(t)
    IN  IF t = Utf8["{}"] THEN Record("summary", PyNone, 0, <<PyNone>>)
        ELSE IF t = Utf8["[1]"] THEN Record("nondict", PyNone, Len(data), <<>>)
        ELSE IF ~obj.ok THEN Record("failed", PyNone, 0, <<>>)
        ELSE IF obj.value.shape = "object"
        THEN Record("summary", Get(obj.value, "method"), 0, <<Get(obj.value, "id")>>)
        ELSE Record("nondict", PyNone, Len(data), <<>>)

\* The records sniff_and_summarize logs for the message it found.
SniffRecords(m) ==
    IF m.kind = "none" THEN <<>>
    ELSE <<Record("detected", m.kind, Len(m.data), <<>>), SummarizeJsonBytes(m.data)>>

\* An Optional[int]: None, or the number n.
NoneInt == [none |-> TRUE, n |-> 0]
SomeInt(n) == [none |-> FALSE, n |-> n]

\* The value sniff_and_summarize returns.
SniffReturn(m) == IF m.kind = "none" THEN NoneInt ELSE SomeInt(m.consumed)

\* Mutant of the fallback: the record shows the whole buffer.
RawRecordWhole(buffer) == Record("raw", PyNone, Len(buffer), buffer)

\* Mutant of the fallback: the record says that the input ended.
RawRecordAsEnd(buffer) == Record("noinput", PyNone, 0, <<>>)

\* f"Raw first bytes ({len(buf)}): {buf[:256]!r}"
RawRecord(buffer) == Record("raw", PyNone, Len(buffer), Slice(buffer, 0, RawShown))

\* Mutant of the test of the fallback: the raw bytes are logged in any case.
RawDueAlways(c) == TRUE

\* if consumed is None:
RawDue(c) == c = NoneInt

\* The start of an lsp frame that was cut off.
PingFrame == LspFrame(Object("9", "ping", Absent))
CutFrames == {Slice(PingFrame, 0, k) : k \in 0..(Len(PingFrame) - 1)}

\* The length of a line longer than the part of the buffer the raw record
\* shows.
LongLen == 300
LongLine == [i \in 1..LongLen |-> "x"] \o <<LF>>

ClientStreams ==
    Streams \cup CutFrames \cup {PingFrame, NdjsonFrame(Object("9", "ping", Absent)), LongLine}

InitTrip ==
    /\ tin \in ClientStreams
    /\ tbuf = <<>>
    /\ tlog = <<>>
    /\ tpc = "start"
    /\ tconsumed = NoneInt
    /\ tout = <<>>
    /\ tchild = FALSE

\* The STARTUP and ENV records; buf = bytearray().
TripStart ==
    /\ tpc = "start"
    /\ tlog' = <<Record("STARTUP", PyNone, 0, <<>>), Record("ENV", "exe", 0, <<>>),
                 Record("ENV", "cwd", 0, <<>>), Record("ENV", "PATH", 0, <<>>),
                 Record("ENV", "PYTHONPATH", 0, <<>>)>>
    /\ tpc' = "readline"
    /\ UNCHANGED <<tin, tbuf, tconsumed, tout, tchild>>
    /\ UNCHANGED notTripVars

\* chunk = sys.stdin.buffer.readline(); if chunk: buf.extend(chunk)
TripReadLine ==
    /\ tpc = "readline"
    /\ LET nl == Find(tin, <<LF>>)
           chunk == IF nl = -1 THEN tin ELSE Slice(tin, 0, nl + 1)
       IN  /\ tin' = SliceFrom(tin, Len(chunk))
           /\ tbuf' = tbuf \o chunk
           /\ tpc' = IF chunk # <<>> THEN "sniff" ELSE "noinput"
    /\ UNCHANGED <<tlog, tconsumed, tout, tchild>>
    /\ UNCHANGED notTripVars

\* consumed = sniff_and_summarize("INPUT", buf), after the line and after
\* the further bytes.
TripSniff ==
    /\ tpc \in {"sniff", "sniff_more"}
    /\ LET m == SniffAndSummarize(tbuf)
       IN  /\ tlog' = tlog \o SniffRecords(m)
           /\ tconsumed' = SniffReturn(m)
           /\ tpc' = IF tpc = "sniff" /\ SniffReturn(m) = NoneInt THEN "read_more"
                     ELSE "fallback"
    /\ UNCHANGED <<tin, tbuf, tout, tchild>>
    /\ UNCHANGED notTripVars

\* more = sys.stdin.buffer.read1(8192); if more: buf.extend(more).  It
\* returns the bytes that have arrived, at least one, and none when the
\* client has closed.
TripReadMore ==
    /\ tpc = "read_more"
    /\ \E k \in 0..Min({Len(tin), ReadMax}) :
          /\ k = 0 => tin = <<>>
          /\ tin' = SliceFrom(tin, k)
          /\ tbuf' = tbuf \o Slice(tin, 0, k)
          /\ tpc' = IF k > 0 THEN "sniff_more" ELSE "fallback"
    /\ UNCHANGED <<tlog, tconsumed, tout, tchild>>
    /\ UNCHANGED notTripVars

\* if consumed is None: logger.log("INPUT", f"Raw first bytes ...")
TripFallback ==
    /\ tpc = "fallback"
    /\ tlog' = IF RawDue(tconsumed) THEN Append(tlog, RawRecord(tbuf)) ELSE tlog
    /\ tpc' = "complete"
    /\ UNCHANGED <<tin, tbuf, tconsumed, tout, tchild>>
    /\ UNCHANGED notTripVars

\* else: logger.log("INPUT", "No bytes from client (EOF?)")
TripNoInput ==
    /\ tpc = "noinput"
    /\ tlog' = Append(tlog, Record("noinput", PyNone, 0, <<>>))
    /\ tpc' = "complete"
    /\ UNCHANGED <<tin, tbuf, tconsumed, tout, tchild>>
    /\ UNCHANGED notTripVars

\* logger.log("COMPLETE", ...); run_tripwire returns.
TripComplete ==
    /\ tpc = "complete"
    /\ tlog' = Append(tlog, Record("COMPLETE", PyNone, 0, <<>>))
    /\ tpc' = "done"
    /\ UNCHANGED <<tin, tbuf, tconsumed, tout, tchild>>
    /\ UNCHANGED notTripVars

NextTrip ==
    \/ TripStart
    \/ TripReadLine
    \/ TripSniff
    \/ TripReadMore
    \/ TripFallback
    \/ TripNoInput
    \/ TripComplete

\* run_tripwire is not running.
TripOff ==
    /\ tin = <<>>
    /\ tbuf = <<>>
    /\ tlog = <<>>
    /\ tpc = "off"
    /\ tconsumed = NoneInt
    /\ tout = <<>>
    /\ tchild = FALSE

(***************************************************************************)
(* main handling one decoded request while writes to stdout can raise:     *)
(* the try block of the dispatch and its except branch.                    *)
(***************************************************************************)
\* str(e) of the BrokenPipeError a write to a closed pipe raises.
BrokenPipeText ==
    <<"[", "E", "r", "r", "n", "o", " ", "3", "2", "]", " ",
      "B", "r", "o", "k", "e", "n", " ", "p", "i", "p", "e">>

\* The write_message calls of one request: the one of the try block and the
\* one of the except branch.
WriteCalls == {1, 2}

\* The handler of the try block raises before anything is written.
RaisesInHandler(r) ==
    /\ Get(r, "method") \in KnownMethods
    /\ Handler(Get(r, "method"), r).raised

\* str(e) in the except branch.
ExceptionText(r) ==
    IF RaisesInHandler(r) THEN Handler(Get(r, "method"), r).message ELSE BrokenPipeText

InitWrite ==
    /\ wreq \in {v \in JsonValues : v.shape = "object"}
    /\ wmode \in {"ndjson", "lsp"}
    /\ wfails \in SUBSET WriteCalls
    /\ wout = <<>>
    /\ wtries = 0
    /\ wpc = "try"

\* main from `method = req.get("method")` to the end of the try block.
WriteTry ==
    /\ wpc = "try"
    /\ LET it == MainIteration(wmode, wreq)
       IN  IF it.writes = <<>>
           THEN wpc' = "read" /\ UNCHANGED <<wout, wtries>>
           ELSE IF RaisesInHandler(wreq)
           THEN wpc' = "except" /\ UNCHANGED <<wout, wtries>>
           ELSE /\ wtries' = wtries + 1
                /\ IF (wtries + 1) \in wfails
                   THEN wpc' = "except" /\ UNCHANGED wout
                   ELSE wout' = wout \o it.writes /\ wpc' = it.next
    /\ UNCHANGED <<wreq, wmode, wfails>>
    /\ UNCHANGED notWriteVars

\* except Exception as e: write_error(req_id, -32603, f"Internal error: {e}");
\* an exception raised here leaves main.
WriteExcept ==
    /\ wpc = "except"
    /\ wtries' = wtries + 1
    /\ IF (wtries + 1) \in wfails
       THEN wpc' = "raised" /\ UNCHANGED wout
       ELSE /\ wout' = Append(wout, WriteRecord(wmode,
                           ErrorPayload(Get(wreq, "id"), InternalError,
                               Utf8["Internal error: "] \o ExceptionText(wreq))))
            /\ wpc' = "read"
    /\ UNCHANGED <<wreq, wmode, wfails>>
    /\ UNCHANGED notWriteVars

NextWrite ==
    \/ WriteTry
    \/ WriteExcept

\* main is not run against a failing output.
WriteOff ==
    /\ wreq = NoReq
    /\ wmode = PyNone
    /\ wfails = {}
    /\ wout = <<>>
    /\ wtries = 0
    /\ wpc = "off"

(***************************************************************************)
(* call_tool and the reply main writes for a tools/call request, over the  *)
(* states of the collaborator.                                             *)
(***************************************************************************)
\* The names call_tool dispatches on.
ToolNames ==
    {"create_note", "create_markdown_note", "create_task_note", "create_meeting_note",
     "create_project_note", "create_daily_note", "search_notes", "open_note",
     "create_notebook", "open_notebook", "open_upnote", "import_note", "export_note"}

\* A tools/call request and the state of the collaborator: the shape of
\* params, params.get("name"), whether UpNoteClient was imported, whether
\* UpNoteClient() raises, and whether the method called raises.
ToolCalls ==
    [params : {"dict", "list"},
     name : ToolNames \cup {"quick_note", PyNone},
     available : BOOLEAN,
     construct : {"returns", "raises"},
     collaborator : {"returns", "raises"}]

\* The names of the catalog list_tools returns; the entry of
\* create_daily_note is commented out there.
CatalogNames ==
    {"create_note", "create_markdown_note", "create_task_note", "create_meeting_note",
     "create_project_note", "search_notes", "open_note",
     "create_notebook", "open_notebook", "open_upnote", "import_note", "export_note"}

\* Mutant of call_tool: without the else branch of the dispatch on name.
CallToolWithNoElse(a) ==
    IF a.params # "dict" THEN [raised |-> TRUE, isError |-> TRUE, invoked |-> FALSE]
    ELSE [raised |-> FALSE,
          isError |-> ~(a.available /\ a.construct = "returns"
                         /\ a.collaborator = "returns"),
          invoked |-> a.available /\ a.construct = "returns"]

\* call_tool(params): whether it raises, the isError of what it returns,
\* and whether it called a method of the client.
CallToolWith(a) ==
    IF a.params # "dict" THEN [raised |-> TRUE, isError |-> TRUE, invoked |-> FALSE]
    ELSE IF ~a.available THEN [raised |-> FALSE, isError |-> TRUE, invoked |-> FALSE]
    ELSE IF a.construct = "raises" THEN [raised |-> FALSE, isError |-> TRUE, invoked |-> FALSE]
    ELSE IF a.name \notin ToolNames THEN [raised |-> FALSE, isError |-> TRUE, invoked |-> FALSE]
    ELSE IF a.collaborator = "raises" THEN [raised |-> FALSE, isError |-> TRUE, invoked |-> TRUE]
    ELSE [raised |-> FALSE, isError |-> FALSE, invoked |-> TRUE]

\* What main writes for the request: write_result(req_id, call_tool(params)),
\* or the write_error of the except branch.
ToolReply(a) ==
    LET r == CallToolWith(a)
    IN  IF r.raised THEN [kind |-> "error", code |-> InternalError, isError |-> TRUE]
        ELSE [kind |-> "result", code |-> 0, isError |-> r.isError]

InitTool ==
    /\ arg \in ToolCalls
    /\ ret = <<>>
    /\ called = PyNone

\* main answers the tools/call request.
ToolsCall ==
    /\ called = PyNone
    /\ arg \in ToolCalls
    /\ ret' = ToolReply(arg)
    /\ called' = "call_tool"
    /\ UNCHANGED arg
    /\ UNCHANGED notCallVars

(***************************************************************************)
(* UpNoteClient._build_url and debug_url.  A text is a sequence of         *)
(* characters; a params dict is the sequence of its items in insertion     *)
(* order, with distinct keys.                                              *)
(***************************************************************************)
\* Items of a params dict.
MaxItems == 2

\* self.base_scheme
BaseScheme == <<"u", "p", "n", "o", "t", "e", ":", "/", "/", "x", "-", "c", "a", "l", "l", "b", "a", "c", "k", "-", "u", "r", "l">>

\* Characters urllib.parse.quote leaves alone with safe='', among those used.
Unreserved == {"a", "b", "k", "t", "5", "n", "o", "e", "r", "u", "f", "l", "s", "T", "F", "N"}

\* The percent code of the other characters used.
PercentCode ==
    [c \in {" ", "&", "=", ",", "/", "%"} |->
        CASE c = " " -> <<"%", "2", "0">>
          [] c = "&" -> <<"%", "2", "6">>
          [] c = "=" -> <<"%", "3", "D">>
          [] c = "," -> <<"%", "2", "C">>
          [] c = "/" -> <<"%", "2", "F">>
          [] OTHER   -> <<"%", "2", "5">>]

\* urllib.parse.quote(text, safe='')
RECURSIVE Quote(_)
Quote(text) ==
    IF text = <<>> THEN <<>>
    ELSE (IF Head(text) \in Unreserved THEN <<Head(text)>> ELSE PercentCode[Head(text)])
         \o Quote(Tail(text))

\* Python values: None, a str, an int (by its text), a bool, a list of str.
Value(t, text, b, items) == [t |-> t, text |-> text, b |-> b, items |-> items]

\* ",".join(items)
RECURSIVE Join(_)
Join(items) ==
    IF items = <<>> THEN <<>>
    ELSE IF Len(items) = 1 THEN items[1]
    ELSE items[1] \o <<",">> \o Join(Tail(items))

\* Mutant of the conversion: a bool goes through str() like any other value.
CleanValueStr(v) ==
    CASE v.t = "list" -> Join(v.items)
      [] v.t = "bool" -> IF v.b THEN <<"T", "r", "u", "e">> ELSE <<"F", "a", "l", "s", "e">>
      [] OTHER -> v.text

\* The value _build_url puts into clean_params for a value that is not None.
CleanValue(v) ==
    CASE v.t = "list" -> Join(v.items)
      [] v.t = "bool" -> IF v.b THEN <<"t", "r", "u", "e">> ELSE <<"f", "a", "l", "s", "e">>
      [] OTHER -> v.text

\* clean_params: the items whose value is not None, converted.
RECURSIVE CleanParams(_)
CleanParams(params) ==
    IF params = <<>> THEN <<>>
    ELSE (IF Head(params).value.t = "none" THEN <<>>
          ELSE <<[key |-> Head(params).key, value |-> CleanValue(Head(params).value)]>>)
         \o CleanParams(Tail(params))

\* urllib.parse.urlencode(clean_params, safe='', quote_via=urllib.parse.quote)
RECURSIVE UrlEncode(_)
UrlEncode(clean) ==
    IF clean = <<>> THEN <<>>
    ELSE Quote(Head(clean).key) \o <<"=">> \o Quote(Head(clean).value)
         \o (IF Tail(clean) = <<>> THEN <<>> ELSE <<"&">> \o UrlEncode(Tail(clean)))

\* _build_url(action, params)
BuildUrl(action, params) ==
    LET query_string == UrlEncode(CleanParams(params))
    IN  BaseScheme \o <<"/">> \o action
        \o (IF query_string # <<>> THEN <<"?">> \o query_string ELSE <<>>)

\* The calls of debug_url: an action and a params dict.
UrlCalls ==
    LET actions == {<<"n", "o", "t", "e", "/", "n", "e", "w">>,
                    <<"n", "o", "t", "e", "/", "o", "p", "e", "n">>}
        keys == {<<"t">>, <<"k">>, <<"a", " ", "b">>}
        values ==
            {Value("none", <<>>, FALSE, <<>>),
             Value("str", <<>>, FALSE, <<>>),
             Value("str", <<"a">>, FALSE, <<>>),
             Value("str", <<"a", "&", "b", "=", "%">>, FALSE, <<>>),
             Value("int", <<"5">>, FALSE, <<>>),
             Value("bool", <<>>, TRUE, <<>>),
             Value("bool", <<>>, FALSE, <<>>),
             Value("list", <<>>, FALSE, <<>>),
             Value("list", <<>>, FALSE, <<<<"a">>, <<"b", " ", "/">>>>)}
        dicts == {p \in SeqsUpTo([key : keys, value : values], MaxItems) :
                    \A i, j \in 1..Len(p) : p[i].key = p[j].key => i = j}
    IN  [action : actions, params : dicts]

InitUrl ==
    /\ arg \in UrlCalls
    /\ ret = <<>>
    /\ called = PyNone

\* debug_url(action, params)
DebugUrl ==
    /\ called = PyNone
    /\ ret' = BuildUrl(arg.action, arg.params)
    /\ called' = "debug_url"
    /\ UNCHANGED arg
    /\ UNCHANGED notCallVars

(***************************************************************************)
(* UpNoteHelper.create_table.                                              *)
(***************************************************************************)
\* Rows handed to create_table.
MaxRows == 2

\* sep.join(items)
RECURSIVE JoinSep(_, _)
JoinSep(items, sep) ==
    IF items = <<>> THEN <<>>
    ELSE IF Len(items) = 1 THEN items[1]
    ELSE items[1] \o sep \o JoinSep(Tail(items), sep)

\* "| " + " | ".join(cells) + " |"
TableRow(cells) == <<"|", " ">> \o JoinSep(cells, <<" ", "|", " ">>) \o <<" ", "|">>

\* Mutant of the loop over the rows: the test of the row's length is missing.
DataRowsAll(hdrs, rows) == [i \in 1..Len(rows) |-> TableRow(rows[i])]

\* data_rows: the rows of the length of headers, each as a line.
RECURSIVE DataRows(_, _)
DataRows(hdrs, rows) ==
    IF rows = <<>> THEN <<>>
    ELSE (IF Len(Head(rows)) = Len(hdrs) THEN <<TableRow(Head(rows))>> ELSE <<>>)
         \o DataRows(hdrs, Tail(rows))

\* create_table(hdrs, rows)
CreateTable(hdrs, rows) ==
    IF hdrs = <<>> \/ rows = <<>> THEN <<>>
    ELSE LET header_row == TableRow(hdrs)
             separator_row == TableRow([i \in 1..Len(hdrs) |-> <<"-", "-", "-">>])
         IN  JoinSep(<<header_row, separator_row>> \o DataRows(hdrs, rows), <<LF>>)

\* The calls of create_table: up to two headers, rows of up to three cells.
TableCalls ==
    LET cells == {<<>>, <<"a">>}
        lists(n) == SeqsUpTo(cells, n)
    IN  [headers : lists(2), rows : SeqsUpTo(lists(3), MaxRows)]

InitTable ==
    /\ arg \in TableCalls
    /\ ret = <<>>
    /\ called = PyNone

\* UpNoteHelper.create_table(headers, rows)
CreateTableCall ==
    /\ called = PyNone
    /\ ret' = CreateTable(arg.headers, arg.rows)
    /\ called' = "create_table"
    /\ UNCHANGED arg
    /\ UNCHANGED notCallVars

\* No library function is called.
CallOff ==
    /\ arg = <<>>
    /\ ret = <<>>
    /\ called = "off"


(***************************************************************************)
(* run_proxy: the main thread spawns the child and waits for it, the       *)
(* daemon thread t_c2s pumps sys.stdin into proc.stdin and t_s2c pumps     *)
(* proc.stdout into sys.stdout.  A byte "r" stands for a request the child *)
(* answers, a byte "b" for a line the child cannot decode.  What the pumps *)
(* log of the bytes is left to the model of pump above.                    *)
(***************************************************************************)
\* Bytes the client sends.
MaxScript == 2

\* What the client sends before it waits or closes.
ClientScripts == UNION {[1..k -> {"r", "b"}] : k \in 0..MaxScript}

\* The bytes the child writes for a request.
ChildReply == <<"a", LF>>

\* The pipes a pump thread reads and writes.
PumpSrc(t) == IF t = "c2s" THEN "stdin" ELSE "procOut"
PumpDst(t) == IF t = "c2s" THEN "procIn" ELSE "stdout"

\* Mutant of proc.terminate(): the child is killed at once.
TerminateSignalKill == "KILL"

\* proc.terminate()
TerminateSignal == "TERM"

\* main returns and the interpreter exits: a daemon thread that is still
\* running is stopped where it is.
PumpsAtExit(th) == [t \in DOMAIN th |-> IF th[t] = "pumping" THEN "dead" ELSE th[t]]

InitProxy ==
    /\ pipe \in [stdin : ClientScripts, procIn : {<<>>}, procOut : {<<>>}, stdout : {<<>>}]
    /\ clientOpen = TRUE
    /\ proc = "running"
    /\ signals = <<>>
    /\ rpc = "wait"
    /\ threads = [c2s |-> "pumping", s2c |-> "pumping"]

\* run_proxy is not running.
ProxyOff ==
    /\ pipe = [stdin |-> <<>>, procIn |-> <<>>, procOut |-> <<>>, stdout |-> <<>>]
    /\ clientOpen = FALSE
    /\ proc = "off"
    /\ signals = <<>>
    /\ rpc = "off"
    /\ threads = [c2s |-> "off", s2c |-> "off"]

\* The client closes its end of the wrapper's stdin.
ClientClose ==
    /\ rpc # "off"
    /\ clientOpen
    /\ clientOpen' = FALSE
    /\ UNCHANGED <<pipe, proc, signals, rpc, threads>>
    /\ UNCHANGED notProxyVars

\* One turn of pump's loop in thread t: a byte is read and forwarded; a
\* write to the stdin of a child that has exited raises and ends the pump;
\* an empty read, when the writer of the source has closed, ends the pump,
\* which closes its tee file and nothing else.
ProxyPump(t) ==
    /\ threads[t] = "pumping"
    /\ rpc # "exited"
    /\ IF pipe[PumpSrc(t)] # <<>>
       THEN LET data == SrcRead(pipe[PumpSrc(t)])
            IN  IF t = "c2s" /\ proc = "exited"
                THEN /\ pipe' = [pipe EXCEPT ![PumpSrc(t)] = SliceFrom(@, Len(data))]
                     /\ threads' = [threads EXCEPT ![t] = "failed"]
                ELSE /\ pipe' = [pipe EXCEPT ![PumpSrc(t)] = SliceFrom(@, Len(data)),
                                             ![PumpDst(t)] = Forward(@, data)]
                     /\ UNCHANGED threads
       ELSE /\ IF t = "c2s" THEN ~clientOpen ELSE proc = "exited"
            /\ threads' = [threads EXCEPT ![t] = "done"]
            /\ UNCHANGED pipe
    /\ UNCHANGED <<clientOpen, proc, signals, rpc>>
    /\ UNCHANGED notProxyVars

\* The child reads from its stdin: it answers a request on its stdout (and
\* ends when the wrapper has exited and the write raises), it ends on a
\* line it cannot decode, and it ends on the end of its input, which it
\* sees once the wrapper, the one holder of the other end, has exited.
ChildRead ==
    /\ proc = "running"
    /\ IF pipe.procIn # <<>>
       THEN /\ pipe' = [pipe EXCEPT !.procIn = Tail(@),
                                    !.procOut = IF Head(pipe.procIn) = "r" /\ rpc # "exited"
                                                THEN @ \o ChildReply ELSE @]
            /\ proc' = IF Head(pipe.procIn) = "r" /\ rpc # "exited" THEN "running"
                       ELSE "exited"
       ELSE /\ rpc = "exited"
            /\ proc' = "exited"
            /\ UNCHANGED pipe
    /\ UNCHANGED <<clientOpen, signals, rpc, threads>>
    /\ UNCHANGED notProxyVars

\* A signal sent to the child ends it.
ChildSignalled ==
    /\ proc = "running"
    /\ signals # <<>>
    /\ proc' = "exited"
    /\ UNCHANGED <<pipe, clientOpen, signals, rpc, threads>>
    /\ UNCHANGED notProxyVars

\* ret = proc.wait() returns; run_proxy returns.
ProxyWait ==
    /\ rpc = "wait"
    /\ proc = "exited"
    /\ rpc' = "returned"
    /\ UNCHANGED <<pipe, clientOpen, proc, signals, threads>>
    /\ UNCHANGED notProxyVars

\* except KeyboardInterrupt: the interrupt arrives while proc.wait() waits.
ProxyInterrupt ==
    /\ rpc = "wait"
    /\ rpc' = "terminate"
    /\ UNCHANGED <<pipe, clientOpen, proc, signals, threads>>
    /\ UNCHANGED notProxyVars

\* proc.terminate(), which sends nothing to a child that has been reaped.
ProxyTerminate ==
    /\ rpc = "terminate"
    /\ signals' = IF proc = "running" THEN Append(signals, TerminateSignal) ELSE signals
    /\ rpc' = "wait5"
    /\ UNCHANGED <<pipe, clientOpen, proc, threads>>
    /\ UNCHANGED notProxyVars

\* proc.wait(timeout=5): it returns when the child has exited, and raises
\* TimeoutExpired after five seconds when it has not.
ProxyWaitTimeout ==
    /\ rpc = "wait5"
    /\ rpc' = IF proc = "exited" THEN "returned" ELSE "kill"
    /\ UNCHANGED <<pipe, clientOpen, proc, signals, threads>>
    /\ UNCHANGED notProxyVars

\* except Exception: proc.kill()
ProxyKill ==
    /\ rpc = "kill"
    /\ signals' = IF proc = "running" THEN Append(signals, "KILL") ELSE signals
    /\ rpc' = "wait_killed"
    /\ UNCHANGED <<pipe, clientOpen, proc, threads>>
    /\ UNCHANGED notProxyVars

\* proc.wait() behind the kill returns; run_proxy returns.
ProxyWaitKilled ==
    /\ rpc = "wait_killed"
    /\ proc = "exited"
    /\ rpc' = "returned"
    /\ UNCHANGED <<pipe, clientOpen, proc, signals, threads>>
    /\ UNCHANGED notProxyVars

\* A second interrupt, inside the handler of the first, is caught by
\* nothing: the wrapper exits and its daemon threads with it.
ProxyInterruptAgain ==
    /\ rpc \in {"terminate", "wait5", "kill", "wait_killed"}
    /\ rpc' = "exited"
    /\ threads' = PumpsAtExit(threads)
    /\ UNCHANGED <<pipe, clientOpen, proc, signals>>
    /\ UNCHANGED notProxyVars

\* main writes its tail note and returns: the wrapper exits and its daemon
\* threads with it.
ProxyExit ==
    /\ rpc = "returned"
    /\ rpc' = "exited"
    /\ threads' = PumpsAtExit(threads)
    /\ UNCHANGED <<pipe, clientOpen, proc, signals>>
    /\ UNCHANGED notProxyVars

\* The steps of the wrapper and the child that need no interrupt and no
\* client.
ProxyRuns ==
    \/ \E t \in {"c2s", "s2c"} : ProxyPump(t)
    \/ ChildRead
    \/ ChildSignalled
    \/ ProxyWait
    \/ ProxyTerminate
    \/ ProxyWaitTimeout
    \/ ProxyKill
    \/ ProxyWaitKilled
    \/ ProxyExit

NextProxy ==
    \/ ProxyRuns
    \/ ClientClose
    \/ ProxyInterrupt
    \/ ProxyInterruptAgain

(***************************************************************************)
(* Specifications.                                                         *)
(***************************************************************************)
Init == InitServer /\ PumpOff /\ ParseOff /\ LogOff /\ TripOff /\ WriteOff /\ CallOff /\ ProxyOff
Next == NextServer
Spec == Init /\ [][Next]_vars

InitOfPump == ServerOff /\ InitPump /\ ParseOff /\ LogOff /\ TripOff /\ WriteOff /\ CallOff /\ ProxyOff
SpecPump == InitOfPump /\ [][NextPump]_vars

InitOfParse == ServerOff /\ PumpOff /\ InitParse /\ LogOff /\ TripOff /\ WriteOff /\ CallOff /\ ProxyOff
SpecParse == InitOfParse /\ [][NextParse]_vars

\* Either program is run: the server, or the pump of the wrapper.
InitAll ==
    /\ \/ InitServer /\ PumpOff
       \/ ServerOff /\ InitPump
    /\ ParseOff
    /\ LogOff
    /\ TripOff /\ WriteOff /\ CallOff /\ ProxyOff
NextAll ==
    \/ NextServer
    \/ NextPump
SpecAll == InitAll /\ [][NextAll]_vars

\* Any one of the three is run: the server, the pump, or the decode rules on
\* one buffer.
InitAny ==
    /\ \/ InitServer /\ PumpOff /\ ParseOff
       \/ ServerOff /\ InitPump /\ ParseOff
       \/ ServerOff /\ PumpOff /\ InitParse
    /\ LogOff
    /\ TripOff /\ WriteOff /\ CallOff /\ ProxyOff
NextAny ==
    \/ NextServer
    \/ NextPump
    \/ NextParse
SpecAny == InitAny /\ [][NextAny]_vars

\* The server reads what a writer of its own kind wrote: a value encoded by
\* write_message under one framing, and whatever that peer put behind it.
WriteValue(mode, v) ==
    IF mode = "lsp" THEN EncodeLsp(JsonText[v]) ELSE EncodeNdjson(JsonText[v])

SentTails ==
    {<<>>,
     <<"x", LF>>,
     WriteValue("ndjson", Object("9", "ping", Absent)),
     WriteValue("lsp", Object("9", "ping", Absent)),
     WriteValue("ndjson", Object(NonAsciiId, "ping", Absent))}

InitEcho ==
    /\ \E mode \in {"ndjson", "lsp"}, v \in JsonValues, tail \in SentTails :
          /\ sent = [mode |-> mode, value |-> v, tail |-> tail]
          /\ stdin = WriteValue(mode, v) \o tail
          /\ TRANSPORT_MODE \in {PyNone, mode}
    /\ eof = FALSE
    /\ pending = 0
    /\ pc = "read"
    /\ req = NoReq
    /\ headers = NoHeaders
    /\ written = <<>>
    /\ rule = PyNone
    /\ lineClass = "unread"
    /\ firstClass = "unread"
    /\ PumpOff
    /\ ParseOff
    /\ LogOff
    /\ TripOff /\ WriteOff /\ CallOff /\ ProxyOff
NextEcho ==
    \/ PeerClose
    \/ ReadFirstLine
    \/ LspHeaderLine
    \/ LspBody
    \/ Dispatch
    \/ LoopBack
SpecEcho == InitEcho /\ [][NextEcho]_vars

\* The three threads of run_proxy log.
InitOfLog == ServerOff /\ PumpOff /\ ParseOff /\ InitLog /\ TripOff /\ WriteOff /\ CallOff /\ ProxyOff
SpecLog == InitOfLog /\ [][NextLog]_vars

\* The server handling a request with writes that can fail.
InitOfWrite == ServerOff /\ PumpOff /\ ParseOff /\ LogOff /\ TripOff /\ InitWrite /\ CallOff /\ ProxyOff
SpecWrite == InitOfWrite /\ [][NextWrite]_vars

\* The server answering a tools/call request.
InitOfTool == ServerOff /\ PumpOff /\ ParseOff /\ LogOff /\ TripOff /\ WriteOff /\ InitTool /\ ProxyOff
SpecTool == InitOfTool /\ [][ToolsCall]_vars

\* A call of debug_url.
InitOfUrl == ServerOff /\ PumpOff /\ ParseOff /\ LogOff /\ TripOff /\ WriteOff /\ InitUrl /\ ProxyOff
SpecUrl == InitOfUrl /\ [][DebugUrl]_vars

\* A call of create_table.
InitOfTable == ServerOff /\ PumpOff /\ ParseOff /\ LogOff /\ TripOff /\ WriteOff /\ InitTable /\ ProxyOff
SpecTable == InitOfTable /\ [][CreateTableCall]_vars

\* The wrapper in tripwire mode.
InitOfTrip == ServerOff /\ PumpOff /\ ParseOff /\ LogOff /\ InitTrip /\ WriteOff /\ CallOff /\ ProxyOff
SpecTrip == InitOfTrip /\ [][NextTrip]_vars

InitOfProxy ==
    ServerOff /\ PumpOff /\ ParseOff /\ LogOff /\ TripOff /\ WriteOff /\ CallOff /\ InitProxy
SpecProxy == InitOfProxy /\ [][NextProxy]_vars

\* The threads of the wrapper and the child process all get to run.
SpecProxyFair == InitOfProxy /\ [][NextProxy]_vars /\ WF_vars(ProxyRuns)

(***************************************************************************)
(* Claims about the server loop.                                           *)
(***************************************************************************)
IsRequest(r) == r.shape = "object" /\ r.id \notin {Absent, "null"}
IsNotification(r) == r.shape = "object" /\ r.id \in {Absent, "null"}
Handled == pc \in {"iterated", "exited"}

\* The text `"id":<id>` that a reply to id carries right after its first key.
EchoText(id) == Utf8["{\"jsonrpc\":\"2.0\""] \o Utf8[",\"id\":"] \o Utf8[id] \o <<",">>

C2_NotificationSilent ==
    (pc \in {"iterated", "exited", "crashed"} /\ IsNotification(req)) =>
        (written = <<>> /\ pc = "iterated")

\* A shutdown notification has been handled and the loop goes on.
C2_Witness ==
    /\ pc = "iterated"
    /\ IsNotification(req)
    /\ req.method = "shutdown"

IsErrorReply(w) ==
    /\ w.payload.kind = "error"
    /\ Find(w.data, Utf8[",\"error\":{\"code\":"]) >= 0
    /\ Find(w.data, Utf8[",\"message\":"]) >= 0
    /\ Find(w.data, Utf8[",\"result\":"]) = -1

IsShutdownRequest(r) == IsRequest(r) /\ r.method = "shutdown"

\* C4: after the iteration of a shutdown request its one empty-result reply
\* is on the output and the next step leaves the loop; once the loop is left
\* nothing more is read or written; end-of-stream leaves the loop with
\* nothing written.
C4_ShutdownStep ==
    /\ (pc = "iterated" /\ IsShutdownRequest(req)) =>
          /\ written = <<WriteRecord(TRANSPORT_MODE, ResultPayload(req.id, EmptyResult))>>
          /\ pc' = "exited"
          /\ written' = written
          /\ stdin' = stdin
    /\ pc = "exited" => (pc' = "exited" /\ stdin' = stdin /\ written' = written)
    /\ (pc = "read" /\ stdin = <<>> /\ eof) => (pc' = "exited" /\ written' = <<>>)

C4_ShutdownTerminates == [][C4_ShutdownStep]_vars

\* The loop has ended on a shutdown request while a later frame is unread.
C4_Witness ==
    /\ pc = "exited"
    /\ IsShutdownRequest(req)
    /\ Len(written) = 1
    /\ stdin # <<>>

\* Compact JSON text and one newline.
IsNdjsonEncoded(data) ==
    /\ Len(data) >= 2
    /\ data[1] = "{"
    /\ Find(data, <<LF>>) = Len(data) - 1

\* Content-Length header, blank line, and a body of the announced length.
IsLspEncoded(data) ==
    LET sep == Find(data, CRLFCRLF)
        h == Utf8["Content-Length: "]
    IN  /\ StartsWith(data, h)
        /\ sep >= Len(h)
        /\ ParseInt(Slice(data, Len(h), sep)).ok
        /\ ParseInt(Slice(data, Len(h), sep)).v = Len(data) - (sep + 4)
        /\ data[sep + 5] = "{"
        /\ data[Len(data)] = "}"

\* C5: every reply is encoded in the framing detected on the inbound stream:
\* ndjson for a stream that began with a JSON line, lsp for one that began
\* with a header line, and never in the other framing.
C5_ReplyFraming ==
    \A i \in 1..Len(written) :
        /\ TRANSPORT_MODE \in {"ndjson", "lsp"}
        /\ TRANSPORT_MODE = "ndjson" <=> IsNdjsonEncoded(written[i].data)
        /\ TRANSPORT_MODE = "lsp" <=> IsLspEncoded(written[i].data)
        /\ firstClass = "json" => IsNdjsonEncoded(written[i].data)
        /\ firstClass = "header" => IsLspEncoded(written[i].data)

\* On a stream that began with an lsp frame, a request that arrived as an
\* ndjson line has been answered.
C5_Witness ==
    /\ firstClass = "header"
    /\ rule = "ndjson"
    /\ Len(written) = 1

\* C6: once TRANSPORT_MODE is set, no step changes it.
C6_ModeFixed == [][TRANSPORT_MODE # PyNone => TRANSPORT_MODE' = TRANSPORT_MODE]_vars

\* With the mode set to ndjson, a frame that begins with a header line has
\* been read and decoded.
C6_Witness ==
    /\ TRANSPORT_MODE = "ndjson"
    /\ rule = "lsp"
    /\ pc = "dispatch"

\* C9: a first line that is blank, or neither a header line nor JSON text,
\* leaves the framing undetermined.
C9_NoGuess == firstClass \in {"blank", "other"} => TRANSPORT_MODE = PyNone

(***************************************************************************)
(* Claims about the detector and the decode rules.                         *)
(***************************************************************************)
\* C7 as stated: every message is decoded with the rule of the cached
\* framing, in the server and in the proxy, where every message found on one
\* stream is then of one kind.
C7_RuleOfCachedFraming ==
    /\ pc = "dispatch" => rule = TRANSPORT_MODE
    /\ \A i \in 1..Len(detected) : detected[i].kind = detected[1].kind

\* C7, amended: the cached TRANSPORT_MODE is the framing of the first line of
\* the stream, but the rule that decodes a message is selected from the first
\* line of that message; the proxy caches nothing, and each message it finds
\* passed the test of its own rule on the buffer it was found in.
C7_RuleOfOwnFirstLine ==
    /\ TRANSPORT_MODE # PyNone =>
          (TRANSPORT_MODE = "ndjson" <=> firstClass = "json")
    /\ pc \in {"lsp_headers", "lsp_body", "dispatch", "iterated"} =>
          /\ rule = "ndjson" <=> lineClass = "json"
          /\ rule = "lsp" <=> lineClass # "json"
    /\ \A i \in 1..Len(detected) :
          /\ detected[i].kind = "ndjson" => detected[i].first \in {<<"{">>, <<"[">>}
          /\ detected[i].kind = "lsp" => detected[i].lspTest

\* With lsp cached, a message has been decoded by the ndjson rule.
C7_Witness ==
    /\ pc = "dispatch"
    /\ TRANSPORT_MODE = "lsp"
    /\ rule = "ndjson"

\* The header test of the detector, spelled out.
LooksLsp(b) ==
    \/ StartsWith(b, <<"C", "o", "n", "t", "e", "n", "t", "-", "L", "e", "n", "g", "t", "h", ":">>)
    \/ \E i \in 1..125 :
          i + 3 <= Len(b) /\ b[i] = CR /\ b[i + 1] = LF /\ b[i + 2] = CR /\ b[i + 3] = LF

FirstNonWhitespace(b) == Slice(LStrip(b), 0, 1)
HasNewline(b) == \E i \in 1..Len(b) : b[i] = LF

\* The classification C8 states.
ClaimedClass(b) ==
    IF LooksLsp(b) THEN "lsp"
    ELSE IF FirstNonWhitespace(b) \in {<<"{">>, <<"[">>} THEN "ndjson"
    ELSE "none"

\* C8 as stated: a message the detector finds is of the class the precedence
\* gives its buffer; an ndjson buffer that holds a whole line and an lsp
\* buffer that holds a whole frame are found; an undetermined buffer is left
\* alone.
C8_Precedence ==
    fpc = "parsed" =>
        /\ fres.sniff.kind # "none" => fres.sniff.kind = ClaimedClass(fbuf)
        /\ (ClaimedClass(fbuf) = "ndjson" /\ HasNewline(fbuf)) => fres.sniff.kind = "ndjson"
        /\ (ClaimedClass(fbuf) = "lsp" /\ fres.lsp.found) => fres.sniff.kind = "lsp"
        /\ ClaimedClass(fbuf) = "none" => fres.sniff.consumed = 0

\* C8, amended: lsp when the header test holds and the lsp rule yields a
\* message; otherwise, also after the lsp rule yielded nothing, ndjson when
\* the first byte of the buffer itself is { or [ and the buffer holds a
\* newline; otherwise undetermined, with nothing consumed.
C8_TryInOrder ==
    fpc = "parsed" =>
        IF LooksLsp(fbuf) /\ fres.lsp.found
        THEN fres.sniff.kind = "lsp" /\ fres.sniff.consumed = fres.lsp.consumed
        ELSE IF Slice(fbuf, 0, 1) \in {<<"{">>, <<"[">>} /\ HasNewline(fbuf)
        THEN fres.sniff.kind = "ndjson" /\ fres.sniff.consumed = fres.nd.consumed
        ELSE fres.sniff.kind = "none" /\ fres.sniff.consumed = 0

\* A whole JSON line behind a space is left undetermined.
C8_Witness ==
    /\ fpc = "parsed"
    /\ StartsWith(fbuf, <<" ", "{", "}", LF>>)
    /\ fres.sniff.kind = "none"

\* C10: without a newline the ndjson rule reports incomplete and consumes
\* nothing; with one, it consumes up to and including the first newline and
\* returns the bytes before it less trailing CRs, which for a line of JSON
\* text is the text; the bytes behind the newline are what the caller's
\* truncation leaves in the buffer.
C10_NdjsonRule ==
    fpc \in {"parsed", "dropped"} =>
        LET b == fres.input
            nd == fres.nd
        IN  /\ ~HasNewline(b) => (~nd.found /\ nd.consumed = 0)
            /\ HasNewline(b) =>
                  /\ nd.found
                  /\ nd.consumed >= 1
                  /\ b[nd.consumed] = LF
                  /\ \A i \in 1..(nd.consumed - 1) : b[i] # LF
                  /\ StartsWith(b, nd.data)
                  /\ \A i \in (Len(nd.data) + 1)..(nd.consumed - 1) : b[i] = CR
                  /\ nd.data # <<>> => nd.data[Len(nd.data)] # CR
            /\ \A text \in {<<"{", "}">>, <<"[", "]">>} :
                  StartsWith(b, text \o <<LF>>) =>
                      (nd.data = text /\ nd.consumed = Len(text) + 1)
            /\ (fpc = "dropped" /\ fres.sniff.kind = "ndjson") =>
                  /\ fres.sniff.consumed = nd.consumed
                  /\ Slice(b, 0, nd.consumed) \o fbuf = b

\* A JSON line was consumed and the bytes behind it are still in the buffer.
C10_Witness ==
    /\ fpc = "dropped"
    /\ fres.sniff.kind = "ndjson"
    /\ StartsWith(fres.input, <<"{", "}", LF>>)
    /\ fbuf # <<>>

(***************************************************************************)
(* Claims about complete frames and round trips.                           *)
(***************************************************************************)
\* A header block that declares a body of two bytes.
HeaderOfTwo == Utf8["Content-Length: "] \o <<"2">> \o CRLFCRLF

\* What C11 asks of the lsp rule on buffer b with result r.
LspRuleComplete(b, r) ==
    /\ ~r.found => (r.consumed = 0 /\ r.data = <<>>)
    /\ r.found =>
          /\ r.consumed <= Len(b)
          /\ Len(r.data) >= 1
          /\ r.data = Slice(b, r.consumed - Len(r.data), r.consumed)
          /\ Find(b, CRLFCRLF) + 4 = r.consumed - Len(r.data)
    /\ StartsWith(b, HeaderOfTwo) =>
          IF Len(b) < Len(HeaderOfTwo) + 2
          THEN ~r.found
          ELSE /\ r.found
               /\ r.consumed = Len(HeaderOfTwo) + 2
               /\ r.data = Slice(b, Len(HeaderOfTwo), Len(HeaderOfTwo) + 2)

\* C11: the lsp rule yields nothing and consumes nothing while fewer bytes
\* than header plus declared length are in the buffer, and yields exactly the
\* declared bytes once they are; the server, waiting for a body of n bytes,
\* decodes only when n bytes are there, takes exactly those, and leaves the
\* loop with nothing decoded and nothing written when the stream ends before.
C11_Step ==
    /\ (fpc = "start" /\ fpc' = "parsed") =>
          /\ LspRuleComplete(fbuf, fres'.lsp)
          /\ fres'.sniff.kind = "lsp" =>
                (fres'.lsp.found /\ fres'.sniff.consumed = fres'.lsp.consumed)
    /\ pc = "lsp_body" =>
          LET n == ContentLength(headers)
          IN  /\ n >= 1
              /\ pc' \in {"lsp_body", "dispatch", "exited"}
              /\ written' = <<>>
              /\ pc' = "dispatch" =>
                    /\ Len(stdin) >= n
                    /\ JsonLoads(Slice(stdin, 0, n)).ok
                    /\ req' = JsonLoads(Slice(stdin, 0, n)).value
                    /\ stdin' = SliceFrom(stdin, n)
              /\ Len(stdin) < n =>
                    /\ pc' # "dispatch"
                    /\ req' = NoReq
                    /\ pc' = "exited" => eof
    /\ (pc = "exited" /\ pc' = "exited") => written' = written

C11_NoPrematureDecode == [][C11_Step]_vars

\* The peer has closed while the server waits for the second byte of a body
\* of two.
C11_Witness ==
    /\ pc = "lsp_body"
    /\ eof
    /\ ContentLength(headers) = 2
    /\ Len(stdin) = 1

\* The reader is still inside the frame that was written first.
InFirstFrame ==
    /\ sent.mode # PyNone
    /\ pc \in {"read", "lsp_headers", "lsp_body"}
    /\ Len(stdin) > Len(sent.tail)

\* What a step inside the first frame does when the frame is read back.
ReadBackStep ==
    /\ pc' \in {"read", "lsp_headers", "lsp_body", "dispatch"}
    /\ pc' = "dispatch" =>
          /\ req' = sent.value
          /\ rule' = sent.mode
          /\ stdin' = sent.tail
    /\ pc' # "dispatch" => Len(stdin') > Len(sent.tail)

\* C12 as stated: what write_message puts on the pipe for a JSON value under
\* either framing is read back by read_message as that value, decoded by the
\* rule of that framing, with the read position exactly behind the bytes
\* written.
C12_RoundTripOfAnyValue == [][InFirstFrame => ReadBackStep]_vars

\* A value whose text does not start with { or [, written as a line.
IsBareLine == sent.value.shape = "scalar" /\ sent.mode = "ndjson"

\* C12, amended: the round trip holds for every JSON object and array under
\* both framings, and for every value under lsp; the line of a bare scalar
\* is taken for a header line and what follows it is read as headers.
C12_RoundTrip ==
    [][/\ (InFirstFrame /\ ~IsBareLine) => ReadBackStep
       /\ (InFirstFrame /\ IsBareLine /\ pc' # pc) =>
             (pc' = "lsp_headers" /\ rule' = "lsp" /\ stdin' = sent.tail)]_vars

\* A message written as an lsp frame has been read back with the next frame
\* still unread.
C12_Witness ==
    /\ pc = "dispatch"
    /\ sent.mode = "lsp"
    /\ sent.tail = WriteValue("lsp", Object("9", "ping", Absent))
    /\ req = sent.value
    /\ req.id = "\"\""
    /\ stdin = sent.tail

\* The only bytes in front of the body: `Content-Length: `, the decimal
\* number of the body's bytes, CR LF CR LF.
LspHeaderOf(body) == Utf8["Content-Length: "] \o FormatInt(Len(body)) \o CRLFCRLF

\* C13: a reply written under lsp is the header `Content-Length: n`, CR LF
\* CR LF and the compact JSON text of the reply, n being the number of bytes
\* of that text and the text being the last bytes written; a frame read from
\* an lsp writer is reproduced byte for byte by encoding what was decoded,
\* and the frame of {} is `Content-Length: 2`, CR LF CR LF, {}.
C13_LspReplyLayout ==
    /\ \A i \in 1..Len(written) :
          TRANSPORT_MODE = "lsp" =>
              LET data == written[i].data
                  sep == Find(data, CRLFCRLF)
                  body == SliceFrom(data, sep + 4)
                  n == ParseInt(Slice(data, Len(Utf8["Content-Length: "]), sep))
              IN  /\ StartsWith(data, Utf8["Content-Length: "])
                  /\ sep >= 0
                  /\ n.ok
                  /\ n.v = Len(body)
                  /\ body = ReplyText(written[i].payload)
                  /\ data = LspHeaderOf(body) \o body
                  /\ Find(body, <<LF>>) = -1
    /\ (pc = "dispatch" /\ sent.mode = "lsp" /\ stdin = sent.tail) =>
          EncodeLsp(JsonText[req]) \o stdin = WriteValue("lsp", sent.value) \o sent.tail
    /\ EncodeLsp(Utf8["{}"]) = Utf8["Content-Length: "] \o <<"2">> \o CRLFCRLF \o Utf8["{}"]
    /\ TryParseLsp(EncodeLsp(Utf8["{}"])).data = Utf8["{}"]

\* A request whose id takes more bytes than characters has been answered
\* under lsp.
C13_Witness ==
    /\ pc = "iterated"
    /\ TRANSPORT_MODE = "lsp"
    /\ req.id = NonAsciiId
    /\ Len(written) = 1
    /\ CharLen(written[1].data) < Len(written[1].data)

(***************************************************************************)
(* Claims about the byte pump.                                             *)
(***************************************************************************)
\* The bytes pump has taken from its source so far.
BytesRead == Slice(srcAll, 0, Len(srcAll) - Len(src))

\* C14: whatever the bytes are and whatever the summarizer finds in them,
\* the destination holds a prefix of the bytes read, byte for byte, and it
\* holds all of them unless the write to the destination itself raised on
\* the last one.
C14_ForwardedPrefix ==
    ppc # "off" =>
        /\ Len(dst) <= Len(BytesRead)
        /\ dst = Slice(BytesRead, 0, Len(dst))
        /\ fault # "dst" => dst = BytesRead
        /\ fault = "dst" => Len(dst) = Len(BytesRead) - 1

\* A stream in which the summarizer found a message and then bytes it could
\* not decode has been forwarded to its end.
C14_Witness ==
    /\ ppc = "done"
    /\ Len(detected) = 1
    /\ buf # <<>>
    /\ dst = srcAll
    /\ Len(dst) >= 4

\* C15 as stated: when pump has returned, for whatever reason, the tee file
\* holds exactly the bytes the destination received.
C15_TeeEqualsDestination == ppc \in {"done", "failed"} => tap = dst

\* C15, amended: when pump has returned the tee file holds the bytes the
\* destination received, except after a write to the tee file itself
\* raised: then it lacks the last byte the destination received.
C15_TeeEqualsUnlessTeeFault ==
    /\ (ppc \in {"done", "failed"} /\ fault # "tap") => tap = dst
    /\ (ppc = "failed" /\ fault = "tap") =>
          (Len(dst) = Len(tap) + 1 /\ tap = Slice(dst, 0, Len(tap)))
    /\ ppc = "pumping" => tap = dst

\* pump has returned on a fault of the tee file, some bytes into the stream.
C15_Witness ==
    /\ ppc = "failed"
    /\ fault = "tap"
    /\ Len(tap) >= 2
    /\ Len(dst) = Len(tap) + 1

\* C16: a fault while summarizing does not stop the relay, so a pump that
\* has returned after one has forwarded every byte of its source.
C16_SummaryFaultHarmless ==
    (ppc \in {"done", "failed"} /\ fault \in {"log", "log2"}) =>
        (src = <<>> /\ dst = srcAll /\ tap = srcAll)

(***************************************************************************)
(* Claims about the log.                                                   *)
(***************************************************************************)
\* The lines a stream of bytes is made of, and what follows its last newline.
RECURSIVE LinesOf(_)
LinesOf(bytes) ==
    LET nl == Find(bytes, <<LF>>)
    IN  IF nl = -1 THEN <<>>
        ELSE <<Slice(bytes, 0, nl + 1)>> \o LinesOf(SliceFrom(bytes, nl + 1))

RECURSIVE Unfinished(_)
Unfinished(bytes) ==
    LET nl == Find(bytes, <<LF>>)
    IN  IF nl = -1 THEN bytes ELSE Unfinished(SliceFrom(bytes, nl + 1))

AllRecords == {FormatLine(t, k) : t \in Threads, k \in 1..MaxRecords}

\* Every line of the stream is the line of one log call, no call has two
\* lines, and nothing is left behind the last newline.
WholeRecords(bytes) ==
    LET lines == LinesOf(bytes)
    IN  /\ Unfinished(bytes) = <<>>
        /\ \A i \in 1..Len(lines) : lines[i] \in AllRecords
        /\ \A i, j \in 1..Len(lines) : lines[i] = lines[j] => i = j

\* C17: however the log calls of the three threads interleave, the log file
\* and stderr are made of whole lines, one per log call that has reached
\* them, each appended in one piece.
C17_WholeLines ==
    lpc["c2s"] # "off" =>
        /\ WholeRecords(logFile)
        /\ WholeRecords(errOut)
        /\ \A t \in Threads : \A k \in 1..ldone[t] :
              /\ \E i \in 1..Len(LinesOf(logFile)) : LinesOf(logFile)[i] = FormatLine(t, k)
              /\ \E i \in 1..Len(LinesOf(errOut)) : LinesOf(errOut)[i] = FormatLine(t, k)

\* Two threads were inside log at the same time and their lines are in the
\* file in the order opposite to the one in which they opened it.
C17_Witness ==
    /\ LinesOf(logFile) = <<FormatLine("s2c", 1), FormatLine("c2s", 1)>>
    /\ lpc["c2s"] = "closed"
    /\ lpc["s2c"] = "closed"
    /\ lpc["stderr"] = "buffered"

(***************************************************************************)
(* Claims about tripwire mode.                                             *)
(***************************************************************************)
OutcomeKinds == {"detected", "raw", "noinput"}

\* The places of the log where an outcome for the inbound stream starts.
Outcomes == {i \in 1..Len(tlog) : tlog[i].rec \in OutcomeKinds}

\* All the client sends: what has been read and what has not.
Whole == tbuf \o tin

\* C18: in tripwire mode no child is spawned and nothing is written to the
\* wrapper's standard output; there is never more than one outcome in the
\* log, and when run_tripwire has returned there is exactly one: a detected
\* message with the one summary that belongs to it, the raw bytes captured,
\* or the no-input record, followed by the COMPLETE record alone.
C18_OneOutcome ==
    tpc # "off" =>
        /\ tchild = FALSE
        /\ tout = <<>>
        /\ Cardinality(Outcomes) <= 1
        /\ tpc = "done" =>
              /\ Cardinality(Outcomes) = 1
              /\ tlog[Len(tlog)].rec = "COMPLETE"
              /\ \A i \in Outcomes :
                    IF tlog[i].rec = "detected"
                    THEN /\ Len(tlog) = i + 2
                         /\ tlog[i + 1].rec \in {"summary", "nondict", "failed"}
                    ELSE Len(tlog) = i + 1

\* An lsp frame was put together from the line and the bytes read after it,
\* summarized, and the run is over.
C18_Witness ==
    /\ tpc = "done"
    /\ Whole = PingFrame
    /\ \E i \in Outcomes : tlog[i].rec = "detected" /\ tlog[i].kind = "lsp"
    /\ \E i \in 1..Len(tlog) : tlog[i].rec = "summary" /\ tlog[i].kind = "ping"

\* C19 as stated: when the client's stream ends inside the header block of
\* an lsp frame or inside its declared body, the outcome logged is the end
\* of input.
C19_CutFrameLogsEnd ==
    (tpc = "done" /\ Whole \in CutFrames) =>
        \A i \in Outcomes : tlog[i].rec = "noinput"

\* C19: when the client's stream ends inside the header block of an lsp
\* frame or inside its declared body, the run ends with one outcome that is
\* never a detected message: the no-input record if the stream held no byte
\* at all, and otherwise the raw record with the count and the first bytes
\* of what had been read.
C19_CutFrameLogsRaw ==
    (tpc = "done" /\ Whole \in CutFrames) =>
        /\ Outcomes # {}
        /\ \A i \in Outcomes :
              IF Whole = <<>> THEN tlog[i].rec = "noinput"
              ELSE tlog[i] = Record("raw", PyNone, Len(tbuf), Slice(tbuf, 0, RawShown))

\* The stream ended inside the body; all of it was read and logged raw.
C19_Witness ==
    /\ tpc = "done"
    /\ Whole = Slice(PingFrame, 0, Len(PingFrame) - 1)
    /\ tin = <<>>
    /\ \E i \in Outcomes : tlog[i].rec = "raw" /\ tlog[i].n = Len(Whole)

(***************************************************************************)
(* Claims about faults in the server's dispatch.                           *)
(***************************************************************************)
\* The handler of the request at hand raised.
HandlerRaised ==
    /\ req.shape = "object"
    /\ ~IsNotificationId(Get(req, "id"))
    /\ Get(req, "method") \in KnownMethods
    /\ Handler(Get(req, "method"), req).raised

\* C20: no decoded inbound value makes the loop raise out of main, and a
\* fault raised by a handler is answered with exactly one error reply that
\* carries the code -32603 and the id of the request.
C20_DispatchNeverCrashes ==
    /\ pc # "crashed"
    /\ (pc = "iterated" /\ HandlerRaised) =>
          /\ Len(written) = 1
          /\ written[1].payload =
                ErrorPayload(Get(req, "id"), InternalError,
                             Utf8["Internal error: "] \o AttributeErrorText)

(***************************************************************************)
(* Claims about decode errors and transport faults in the server.          *)
(***************************************************************************)
\* The ndjson rule was selected for a line and json.loads failed on it.
NdjsonDecodeFailed == rule = "ndjson" /\ lineClass = "json" /\ req = NoReq

\* C21: a line that has the look of an ndjson message but is not JSON does
\* not end the read loop.
C21_DecodeErrorNotFatal == NdjsonDecodeFailed => pc # "exited"

\* The write_message calls made so far that raised.
FailedWrites == {k \in 1..wtries : k \in wfails}

\* C22: when a write of a reply raises, main makes no further write for the
\* request, the exception does not leave main, and the loop is not entered
\* again.
C22_WriteFaultEndsLoop ==
    FailedWrites # {} =>
        /\ wtries = 1
        /\ wpc \notin {"raised", "read"}

(***************************************************************************)
(* Claims about tools/call.                                                *)
(***************************************************************************)
\* The named operation was found and the collaborator returned normally.
ToolSucceeded ==
    /\ arg.available
    /\ arg.construct = "returns"
    /\ arg.name \in ToolNames
    /\ arg.collaborator = "returns"

\* C23 as stated: every tools/call request is answered with a result reply,
\* whose isError is false exactly when the operation was found and the
\* collaborator returned normally.
C23_AlwaysResult ==
    called = "call_tool" =>
        /\ ret.kind = "result"
        /\ ret.isError = ~ToolSucceeded

\* C23: a tools/call request whose params is an object (or absent) is
\* answered with a result reply, whose isError is false exactly when the
\* operation was found and the collaborator returned normally; a request
\* whose params is a non-empty value that is no object is answered with an
\* error reply of code -32603.
C23_ResultForObjectParams ==
    called = "call_tool" =>
        IF arg.params = "dict"
        THEN ret.kind = "result" /\ ret.isError = ~ToolSucceeded
        ELSE ret.kind = "error" /\ ret.code = InternalError

\* A known tool was called, the collaborator returned, isError is false.
C23_Witness ==
    /\ called = "call_tool"
    /\ arg.params = "dict"
    /\ arg.name = "create_note"
    /\ ToolSucceeded
    /\ ret = [kind |-> "result", code |-> 0, isError |-> FALSE]

(***************************************************************************)
(* Claims about the proxy's buffer and decode rules.                       *)
(***************************************************************************)
\* Well-formed messages: an ndjson line and an lsp frame.
WellFormedChunks ==
    {Utf8["{}"] \o <<LF>>,
     Utf8["Content-Length: "] \o <<"2">> \o CRLFCRLF \o Utf8["{}"]}

\* C24: after a header block without Content-Length, which the lsp rule
\* reports as incomplete, a well-formed message that follows on the same
\* stream has been decoded and summarized by the time the stream ends.
C24_ResyncAfterBadHeader ==
    (ppc = "done" /\ \E m \in WellFormedChunks : srcAll = CRLFCRLF \o m) =>
        Len(detected) = 1

(***************************************************************************)
(* Claims about the client library.                                        *)
(***************************************************************************)
\* The text a percent-encoded text stands for.
RECURSIVE Unquote(_)
Unquote(text) ==
    IF text = <<>> THEN <<>>
    ELSE IF Head(text) = "%"
    THEN <<CHOOSE c \in DOMAIN PercentCode : PercentCode[c] = SubSeq(text, 1, 3)>>
         \o Unquote(SubSeq(text, 4, Len(text)))
    ELSE <<Head(text)>> \o Unquote(Tail(text))

\* The parts of a text between the occurrences of a separator.
RECURSIVE SplitAt(_, _)
SplitAt(text, sep) ==
    LET i == Find(text, <<sep>>)
    IN  IF i = -1 THEN <<text>>
        ELSE <<Slice(text, 0, i)>> \o SplitAt(SliceFrom(text, i + 1), sep)

\* The items of the params dict whose value is not None, in order.
Remaining == SelectSeq(arg.params, LAMBDA it : it.value.t # "none")

\* How a value is rendered: a bool as true or false, a list as its items
\* joined by commas, an empty string as nothing.
Rendered(v) ==
    IF v.t = "bool" THEN (IF v.b THEN <<"t", "r", "u", "e">> ELSE <<"f", "a", "l", "s", "e">>)
    ELSE IF v.t = "list" THEN Join(v.items)
    ELSE v.text

\* C25: the URL debug_url returns is the base scheme, a slash and the
\* action, and nothing more when no parameter is left after those with value
\* None are removed; otherwise a question mark follows and one key=value pair
\* for each parameter left, in order, separated by &, whose decoded value is
\* the empty text for an empty string, true or false for a bool, and the
\* items joined by commas for a list.
C25_UrlShape ==
    called = "debug_url" =>
        LET stem == BaseScheme \o <<"/">> \o arg.action
            rest == SliceFrom(ret, Len(stem))
        IN  /\ StartsWith(ret, stem)
            /\ IF Remaining = <<>> THEN rest = <<>>
               ELSE /\ Head(rest) = "?"
                    /\ LET pairs == SplitAt(Tail(rest), "&")
                       IN  /\ Len(pairs) = Len(Remaining)
                           /\ \A i \in 1..Len(pairs) :
                                 LET kv == SplitAt(pairs[i], "=")
                                 IN  /\ Len(kv) = 2
                                     /\ Unquote(kv[1]) = Remaining[i].key
                                     /\ Unquote(kv[2]) = Rendered(Remaining[i].value)

\* A None value was dropped and a bool kept: one pair in the query.
C25_Witness ==
    /\ called = "debug_url"
    /\ Len(arg.params) = 2
    /\ arg.params[1].value.t = "none"
    /\ arg.params[2] = [key |-> <<"a", " ", "b">>, value |-> Value("bool", <<>>, TRUE, <<>>)]
    /\ ret = BaseScheme \o <<"/">> \o arg.action
             \o <<"?", "a", "%", "2", "0", "b", "=", "t", "r", "u", "e">>

\* The rows of the call whose length is the number of headers, in order.
FittingRows == SelectSeq(arg.rows, LAMBDA row : Len(row) = Len(arg.headers))

\* The cells of a table line: the texts between its bars, without the
\* blanks around them.
CellsOf(line) ==
    LET parts == SplitAt(line, "|")
    IN  [i \in 1..(Len(parts) - 2) |-> Slice(parts[i + 1], 1, Len(parts[i + 1]) - 1)]

\* C26: create_table returns the empty string when headers or rows is
\* empty; otherwise its lines are the header row, a separator row with one
\* --- for each header, and one line for each row that has as many cells as
\* there are headers, in the order of the input and with its cells.
C26_TableShape ==
    called = "create_table" =>
        IF arg.headers = <<>> \/ arg.rows = <<>> THEN ret = <<>>
        ELSE LET lines == SplitAt(ret, LF)
             IN  /\ Len(lines) = 2 + Len(FittingRows)
                 /\ \A i \in 1..Len(lines) :
                       /\ StartsWith(lines[i], <<"|", " ">>)
                       /\ SubSeq(lines[i], Len(lines[i]) - 1, Len(lines[i])) = <<" ", "|">>
                 /\ CellsOf(lines[1]) = arg.headers
                 /\ CellsOf(lines[2]) = [i \in 1..Len(arg.headers) |-> <<"-", "-", "-">>]
                 /\ \A i \in 1..Len(FittingRows) : CellsOf(lines[i + 2]) = FittingRows[i]

\* A row that is too short was left out behind one that fits.
C26_Witness ==
    /\ called = "create_table"
    /\ arg.headers = <<<<"a">>, <<>>>>
    /\ arg.rows = <<<<<<"a">>, <<"a">>>>, <<<<"a">>>>>>
    /\ Len(SplitAt(ret, LF)) = 3

(***************************************************************************)
(* Claims about the order of reads and replies in the server.              *)
(***************************************************************************)
\* C27: the server takes bytes from its input only at the top of the loop
\* and inside read_message, with no request at hand and no reply of the
\* iteration outstanding; and the step that handles a request reads nothing
\* and writes the one reply with the id of the request.  Replies are
\* therefore written in the order in which their requests were read.
C27_Step ==
    /\ Len(stdin') < Len(stdin) =>
          /\ pc \in {"read", "lsp_headers", "lsp_body"}
          /\ req = NoReq
          /\ written = <<>>
          /\ written' = <<>>
    /\ (pc = "dispatch" /\ IsRequest(req) /\ pc' = "iterated") =>
          /\ stdin' = stdin
          /\ Len(written') = 1
          /\ written'[1].payload.id = req.id
C27_Sequential == [][C27_Step]_vars

\* A request has been answered while the next message waits unread.
C27_Witness ==
    /\ pc = "iterated"
    /\ IsRequest(req)
    /\ Len(written) = 1
    /\ \E v \in NdjsonValues : IsRequest(v) /\ stdin = NdjsonFrame(v)

\* The unread input is exactly one whole message, or what is left of one
\* after the reader took its first lines: an ndjson line at the top of the
\* loop, an lsp frame at the top of the loop, the blank line and the body
\* of an lsp frame inside the header loop, the declared body after it.
OneMessageArrived ==
    \/ pc = "read" /\ \E v \in NdjsonValues : stdin = NdjsonFrame(v)
    \/ pc = "read" /\ \E v \in LspValues : stdin = LspFrame(v)
    \/ pc = "lsp_headers" /\ \E v \in LspValues : stdin = CRLF \o JsonText[v]
    \/ pc = "lsp_body" /\ \E v \in LspValues :
          stdin = JsonText[v] /\ ContentLength(headers) = Len(stdin)

\* The call the reader is in returns with the bytes at hand: readline has
\* its line, read(n) its n bytes.
ReadReturns ==
    IF pc = "lsp_body" THEN Len(stdin) >= ContentLength(headers) \/ eof
    ELSE ReadLine(stdin, eof).ready

\* C28: when all bytes of a message have arrived and no byte of a next
\* one, the reader is not waiting: the read it is in returns, the peer
\* neither sending nor closing.
C28_NoWaitPastMessage == (OneMessageArrived /\ ~eof) => ReadReturns

\* The body of an lsp frame has arrived in full, nothing follows it, the
\* peer has not closed, and the reader is about to read the body.
C28_Witness ==
    /\ pc = "lsp_body"
    /\ ~eof
    /\ stdin = JsonText[Object("9", "ping", Absent)]
    /\ ContentLength(headers) = Len(stdin)

\* C29: applying the two decode rules and the detector leaves the buffer as
\* it was; applying them a second time gives the results of the first
\* time; and the buffer changes only when the caller drops from its head
\* the count the detector returned for a message it found.
C29_Step ==
    /\ fpc' \in {"parsed", "reparsed"} => fbuf' = fbuf
    /\ fpc' = "reparsed" => fres' = fres
    /\ fbuf' # fbuf =>
          /\ fpc' = "dropped"
          /\ fres.sniff.kind # "none"
          /\ fres.sniff.consumed > 0
          /\ Slice(fbuf, 0, fres.sniff.consumed) \o fbuf' = fbuf
RECURSIVE Pieces(_)
Pieces(ds) == IF ds = <<>> THEN <<>> ELSE Head(ds).piece \o Pieces(Tail(ds))

\* A removed piece is whole under its framing: a line that starts with a
\* brace or a bracket and ends at its only newline, or a header block with
\* the body it declares and no byte less.
WholeFrame(d) ==
    IF d.kind = "ndjson"
    THEN /\ Slice(d.piece, 0, 1) \in {<<"{">>, <<"[">>}
         /\ Find(d.piece, <<LF>>) = Len(d.piece) - 1
    ELSE /\ d.kind = "lsp"
         /\ Find(d.piece, CRLFCRLF) >= 0
         /\ Len(d.piece) > Find(d.piece, CRLFCRLF) + 4
         /\ TryParseLsp(d.piece).consumed = Len(d.piece)
         /\ \A k \in 0..(Len(d.piece) - 1) : ~TryParseLsp(Slice(d.piece, 0, k)).found

\* C30 as stated: in every state of a pump the buffer is the forwarded
\* bytes less a prefix made of whole messages that decoded.
C30_BufferIsStreamLessMessages ==
    ppc # "off" =>
        /\ dst = Pieces(detected) \o buf
        /\ \A i \in 1..Len(detected) :
              /\ WholeFrame(detected[i])
              /\ JsonLoads(Strip(detected[i].data)).ok

\* C30: the buffer is the forwarded bytes less the removed pieces, which
\* lie at the front in the order of their removal and are each whole under
\* the framing, whether their payload decodes or not; after a fault of the
\* tee file the last forwarded byte is not in the buffer.
C30_BufferIsStreamLessFrames ==
    ppc # "off" =>
        /\ fault # "tap" => dst = Pieces(detected) \o buf
        /\ fault = "tap" =>
              /\ dst # <<>>
              /\ Slice(dst, 0, Len(dst) - 1) = Pieces(detected) \o buf
        /\ \A i \in 1..Len(detected) : WholeFrame(detected[i])

\* A line that is not JSON and a frame were removed, and bytes of a
\* message not yet whole are held while the pump goes on.
C30_Witness ==
    /\ ppc = "pumping"
    /\ Len(detected) = 2
    /\ \E i \in 1..2 : detected[i].data = <<"{", "x">>
    /\ \E i \in 1..2 : detected[i].kind = "lsp"
    /\ buf # <<>>
    /\ src # <<>>

(***************************************************************************)
(* Claims about the catalog and the dispatch of tools/call.                *)
(***************************************************************************)
\* C36: for a tools/call that reaches the dispatch on name, a method of
\* the client is called exactly when the name is in the catalog of
\* tools/list, and a name outside the catalog is reported with isError
\* true.
C36_DispatchIsCatalog ==
    (called = "call_tool" /\ arg.params = "dict" /\ arg.available
        /\ arg.construct = "returns") =>
        /\ CallToolWith(arg).invoked <=> arg.name \in CatalogNames
        /\ arg.name \notin CatalogNames => ret.isError

(***************************************************************************)
(* Claims about the reads of tripwire mode.                                *)
(***************************************************************************)
\* The order of the places of run_tripwire.
TripRank ==
    [p \in {"start", "readline", "sniff", "noinput", "read_more", "sniff_more",
            "fallback", "complete", "done"} |->
        CASE p = "start" -> 0
          [] p = "readline" -> 1
          [] p \in {"sniff", "noinput"} -> 2
          [] p = "read_more" -> 3
          [] p = "sniff_more" -> 4
          [] p = "fallback" -> 5
          [] p = "complete" -> 6
          [] OTHER -> 7]

\* One step of run_tripwire: it moves forward, so the line read and the
\* further read happen at most once each; bytes are taken from the client
\* in these two reads alone, the further read takes at most 8192 bytes and
\* happens only behind a first line that gave no message; a first line that
\* is a whole ndjson message is summarized and leads to the end with no
\* read; a raw record shows at most 256 bytes.
C32_Step ==
    /\ TripRank[tpc'] > TripRank[tpc]
    /\ tin' # tin => tpc \in {"readline", "read_more"}
    /\ tpc' = "read_more" =>
          /\ tpc = "sniff"
          /\ SniffAndSummarize(tbuf).kind = "none"
          /\ tlog' = tlog
    /\ tpc = "read_more" => Len(tbuf') - Len(tbuf) <= ReadMax
    /\ (tpc = "sniff" /\ SniffAndSummarize(tbuf).kind = "ndjson") =>
          /\ tpc' = "fallback"
          /\ tin' = tin
          /\ Len(tlog') = Len(tlog) + 2
          /\ tlog'[Len(tlog) + 1] = Record("detected", "ndjson", Len(tbuf) - 1, <<>>)
    /\ \A i \in 1..Len(tlog') :
          tlog'[i].rec = "raw" => Len(tlog'[i].data) <= RawShown

\* At a place short of the end the step of that place can be taken (the
\* reads return what the client has sent, or nothing once it has closed);
\* TripSniff has no condition but its place.
TripCanStep ==
    CASE tpc = "start" -> ENABLED TripStart
      [] tpc = "readline" -> ENABLED TripReadLine
      [] tpc \in {"sniff", "sniff_more"} -> TRUE
      [] tpc = "read_more" -> ENABLED TripReadMore
      [] tpc = "fallback" -> ENABLED TripFallback
      [] tpc = "noinput" -> ENABLED TripNoInput
      [] tpc = "complete" -> ENABLED TripComplete
      [] OTHER -> tpc \in {"done", "off"}

\* C32: run_tripwire comes to its end after a bounded number of steps:
\* short of the end a step can always be taken, and every step is as
\* C32_Step says, forward in the order of the places, with one line read and
\* at most one further read of bounded size, made only when the line gave
\* no message, and at most 256 bytes in a raw record.
C32_BoundedReads == [](TripCanStep) /\ [][C32_Step]_vars

\* A line of more than 256 bytes gave no message, the further read found
\* the stream closed, and the raw record shows 256 bytes of it.
C32_Witness ==
    /\ tpc = "done"
    /\ Len(tbuf) > RawShown
    /\ \E i \in 1..Len(tlog) :
          tlog[i].rec = "raw" /\ tlog[i].n = Len(tbuf) /\ Len(tlog[i].data) = RawShown

(***************************************************************************)
(* Claims about the second detection of the pump.                          *)
(***************************************************************************)
\* C35: a turn of the pump's loop removes at most one message, the
\* message is the whole buffer with the byte just read as its last, and
\* the buffer is empty behind it: the second detection of the turn finds
\* nothing.
C35_Step ==
    Len(detected') > Len(detected) =>
        /\ Len(detected') = Len(detected) + 1
        /\ detected'[Len(detected')].piece = buf \o SrcRead(src)
        /\ buf' = <<>>
        /\ SniffAndSummarize(buf').kind = "none"
C35_DecodeEmptiesBuffer == [][C35_Step]_vars

\* A frame and then a line were removed, and the buffer is empty while the
\* pump goes on.
C35_Witness ==
    /\ ppc = "pumping"
    /\ Len(detected) = 2
    /\ detected[1].kind = "lsp"
    /\ detected[2].kind = "ndjson"
    /\ buf = <<>>
    /\ src # <<>>

(***************************************************************************)
(* Claims about proxy mode.                                                *)
(***************************************************************************)
\* C31: run_proxy sends the child a signal only behind an interrupt; the
\* first signal is the request to terminate, and the kill is sent only
\* from the handler of a wait of five seconds that ended with the child
\* still running, behind that request.
C31_Step ==
    /\ signals' # signals =>
          /\ \E sig \in {"TERM", "KILL"} : signals' = Append(signals, sig)
          /\ signals = <<>> => signals' = <<"TERM">> /\ rpc = "terminate"
          /\ signals # <<>> => signals = <<"TERM">> /\ signals' = <<"TERM", "KILL">> /\ rpc = "kill"
    /\ rpc' # rpc =>
          /\ rpc' = "kill" => rpc = "wait5" /\ proc = "running"
          /\ rpc' = "wait5" => rpc = "terminate"
          /\ rpc' = "terminate" => rpc = "wait"
C31_GracefulBeforeKill == [][C31_Step]_vars

\* The child outlived the wait of five seconds behind the request to
\* terminate and was killed.
C31_Witness ==
    /\ signals = <<"TERM", "KILL">>
    /\ rpc = "returned"
    /\ proc = "exited"

\* C33: when the wrapper has exited, no byte the child wrote is left
\* unforwarded in the pipe from the child.
C33_NoOutputLost == rpc = "exited" => pipe.procOut = <<>>

\* C34: once the client has closed its side, the wrapper exits in the end.
C34_EofPropagates == (rpc # "off" /\ ~clientOpen) ~> (rpc = "exited")
====
